---- MODULE Spec2Model ----
(***************************************************************************)
(* Rename planning and plan execution of the Home-Netflix-Project tools:   *)
(*   name_normalizor.py  (build_rename_plan / apply_plan)                  *)
(*   show_name_normal.py (build_plan_for_show_dir / apply)                 *)
(*   sort_movies.py      (build_sort_plan / apply_sort_plan)               *)
(* File names are sequences of one-character strings, so that the string   *)
(* operations of the source (split, startswith, casefold, slicing) are     *)
(* computed and not assumed.                                               *)
(***************************************************************************)
EXTENDS Integers, Sequences, FiniteSets, TLC

(***************************************************************************)
(* Bounds of the model.                                                    *)
(***************************************************************************)
\* Largest number of files on disk when a scan starts.
MaxFiles == 3

\* The probe limit of the resolvers: the source probes dup1..dup999
\* (range(1, 1000)); the model probes dup1..dupMaxDup so that exhaustion
\* is reachable with MaxFiles files.
MaxDup == 2

\* Largest number of files that refuse a rename when an apply starts.
MaxLocked == 2

\* Largest number of applies started on one stored plan.
MaxApplies == 2

\* Where the count of automatic retries between two prompts stops.
MaxAutos == 2

(***************************************************************************)
(* Characters and Python str operations.                                   *)
(***************************************************************************)
UPPER == <<"A", "B", "C", "D", "E", "F", "G", "H", "I", "J", "K", "L", "M",
           "N", "O", "P", "Q", "R", "S", "T", "U", "V", "W", "X", "Y", "Z">>

LOWER == <<"a", "b", "c", "d", "e", "f", "g", "h", "i", "j", "k", "l", "m",
           "n", "o", "p", "q", "r", "s", "t", "u", "v", "w", "x", "y", "z">>

DIGITS == <<"0", "1", "2", "3", "4", "5", "6", "7", "8", "9">>

\* The characters of the model's file names in code-point order (the order
\* Python compares str, and so pathlib compares paths, by).
ASCII == <<" ", "(", ")", "+", ",", "-", ".", "/">> \o DIGITS \o <<":", ";">>
         \o UPPER \o <<"[", "]", "_">> \o LOWER \o <<"{", "}">>

WHITESPACE == {" "}

Range(seq) == {seq[i] : i \in 1..Len(seq)}

IndexOf(seq, c) == CHOOSE i \in 1..Len(seq) : seq[i] = c

SetMin(S) == CHOOSE x \in S : \A y \in S : x <= y

SetMax(S) == CHOOSE x \in S : \A y \in S : y <= x

\* tables over the characters, computed once
OrdTable == [c \in Range(ASCII) |-> IndexOf(ASCII, c)]

LowerTable == [c \in Range(ASCII) |->
                  IF c \in Range(UPPER) THEN LOWER[IndexOf(UPPER, c)] ELSE c]

UpperTable == [c \in Range(ASCII) |->
                  IF c \in Range(LOWER) THEN UPPER[IndexOf(LOWER, c)] ELSE c]

DigitSet == Range(DIGITS)

ord(c) == OrdTable[c]

isdigit(c) == c \in DigitSet

ch_lower(c) == LowerTable[c]

ch_upper(c) == UpperTable[c]

\* str.lower() and, on ASCII text, str.casefold()
str_lower(s) == [i \in 1..Len(s) |-> ch_lower(s[i])]

str_upper(s) == [i \in 1..Len(s) |-> ch_upper(s[i])]

startswith(s, p) == Len(p) <= Len(s) /\ SubSeq(s, 1, Len(p)) = p

endswith(s, p) == Len(p) <= Len(s) /\ SubSeq(s, Len(s) - Len(p) + 1, Len(s)) = p

\* s[n:]
DropFirst(s, n) == SubSeq(s, n + 1, Len(s))

\* str.strip()
str_strip(s) ==
    LET keep == {i \in 1..Len(s) : s[i] \notin WHITESPACE}
    IN  IF keep = {} THEN <<>> ELSE SubSeq(s, SetMin(keep), SetMax(keep))

\* a < b for str: the first differing character decides, a proper prefix is less
str_lt(a, b) ==
    LET diff == {i \in 1..Len(a) : i > Len(b) \/ a[i] # b[i]}
    IN  IF diff = {} THEN Len(a) < Len(b)
        ELSE LET i == SetMin(diff) IN i <= Len(b) /\ ord(a[i]) < ord(b[i])

\* The maximal runs of characters outside seps, in order: re.split on a
\* character class with "+", empty pieces dropped.
RECURSIVE SplitOn(_, _)
SplitOn(s, seps) ==
    IF s = <<>> THEN <<>>
    ELSE IF s[1] \in seps THEN SplitOn(Tail(s), seps)
    ELSE LET stops == {i \in 1..Len(s) : s[i] \in seps}
             n == IF stops = {} THEN Len(s) ELSE SetMin(stops) - 1
         IN  <<SubSeq(s, 1, n)>> \o SplitOn(DropFirst(s, n), seps)

RECURSIVE JoinWith(_, _)
JoinWith(toks, sep) ==
    IF toks = <<>> THEN <<>>
    ELSE IF Len(toks) = 1 THEN toks[1]
    ELSE toks[1] \o sep \o JoinWith(Tail(toks), sep)

\* str(i) for i >= 0
RECURSIVE int_str(_)
int_str(i) == IF i < 10 THEN <<DIGITS[i + 1]>>
              ELSE int_str(i \div 10) \o <<DIGITS[(i % 10) + 1]>>

\* int(s) for a string of digits
RECURSIVE str_int(_)
str_int(s) == IF s = <<>> THEN 0
              ELSE 10 * str_int(SubSeq(s, 1, Len(s) - 1)) + (IndexOf(DIGITS, s[Len(s)]) - 1)

(***************************************************************************)
(* pathlib: a path is the sequence of its parts below the scanned root,    *)
(* the last part being the file name.                                      *)
(***************************************************************************)
path_name(p) == p[Len(p)]

path_parent(p) == SubSeq(p, 1, Len(p) - 1)

with_name(p, n) == Append(path_parent(p), n)

\* PurePath.suffix of a name
suffix(n) ==
    LET dots == {i \in 1..Len(n) : n[i] = "."}
    IN  IF dots = {} THEN <<>>
        ELSE LET i == SetMax(dots)
             IN  IF 1 < i /\ i < Len(n) THEN SubSeq(n, i, Len(n)) ELSE <<>>

\* PurePath.stem of a name
stem(n) == SubSeq(n, 1, Len(n) - Len(suffix(n)))

\* any(s in exts for s in [x.lower() for x in p.suffixes])
suffixes_meet(n, exts) ==
    LET pieces == SplitOn(n, {"."})
    IN  /\ ~endswith(n, <<".">>)
        /\ \E j \in 2..Len(pieces) : (<<".">> \o str_lower(pieces[j])) \in exts

\* sorted() of a set of paths: by parts, each part as str
path_lt(p, q) ==
    LET diff == {i \in 1..Len(p) : i > Len(q) \/ p[i] # q[i]}
    IN  IF diff = {} THEN Len(p) < Len(q)
        ELSE LET i == SetMin(diff) IN i <= Len(q) /\ str_lt(p[i], q[i])

RECURSIVE sorted(_)
sorted(S) ==
    IF S = {} THEN <<>>
    ELSE LET m == CHOOSE x \in S : \A y \in S \ {x} : path_lt(x, y)
         IN  <<m>> \o sorted(S \ {m})

(***************************************************************************)
(* name_normalizor.py: tables                                              *)
(***************************************************************************)
VALID_VIDEO_EXTENSIONS ==
  { <<".", "a", "v", "i">>,
    <<".", "m", "2", "t", "s">>,
    <<".", "m", "4", "v">>,
    <<".", "m", "k", "v">>,
    <<".", "m", "o", "v">>,
    <<".", "m", "p", "4">>,
    <<".", "w", "m", "v">> }

SIDECAR_EXTENSIONS ==
  { <<".", "a", "s", "s">>,
    <<".", "i", "d", "x">>,
    <<".", "n", "f", "o">>,
    <<".", "s", "r", "t">>,
    <<".", "s", "s", "a">>,
    <<".", "s", "u", "b">>,
    <<".", "v", "t", "t">> }

MEDIA_EXTS == {str_lower(e) : e \in VALID_VIDEO_EXTENSIONS}

SIDECAR_EXTS == {str_lower(e) : e \in SIDECAR_EXTENSIONS}

KNOWN_JUNK_NAMES ==
  { <<"1", "0", "8", "0", "p">>,
    <<"2", ".", "0">>,
    <<"2", "1", "6", "0", "p">>,
    <<"4", "8", "0", "p">>,
    <<"4", "k">>,
    <<"5", ".", "1">>,
    <<"7", ".", "1">>,
    <<"7", "2", "0", "p">>,
    <<"a", "a", "c">>,
    <<"a", "c", "3">>,
    <<"a", "t", "m", "o", "s">>,
    <<"b", "d", "r", "i", "p">>,
    <<"b", "l", "u", "r", "a", "y">>,
    <<"b", "r", "r", "i", "p">>,
    <<"c", "o", "p", "y">>,
    <<"d", "d">>,
    <<"d", "d", "p">>,
    <<"d", "l">>,
    <<"d", "o", "l", "b", "y", "v", "i", "s", "i", "o", "n">>,
    <<"d", "t", "s">>,
    <<"d", "t", "s", "h", "d">>,
    <<"d", "v">>,
    <<"d", "v", "d", "r", "i", "p">>,
    <<"e", "a", "c", "3">>,
    <<"e", "t", "t", "v">>,
    <<"e", "v", "o">>,
    <<"h", "2", "6", "4">>,
    <<"h", "2", "6", "5">>,
    <<"h", "d", "r">>,
    <<"h", "d", "r", "1", "0">>,
    <<"h", "d", "r", "1", "0", "+">>,
    <<"h", "d", "r", "i", "p">>,
    <<"h", "d", "t", "v">>,
    <<"h", "e", "v", "c">>,
    <<"j", "y", "k">>,
    <<"p", "r", "o", "p", "e", "r">>,
    <<"r", "a", "r", "b", "g">>,
    <<"r", "e", "m", "u", "x">>,
    <<"r", "e", "p", "a", "c", "k">>,
    <<"s", "a", "m", "p", "l", "e">>,
    <<"t", "r", "u", "e", "h", "d">>,
    <<"u", "h", "d">>,
    <<"u", "n", "r", "a", "t", "e", "d">>,
    <<"w", "e", "b">>,
    <<"w", "e", "b", "-", "d", "l">>,
    <<"w", "e", "b", "d", "l">>,
    <<"w", "e", "b", "r", "i", "p">>,
    <<"x", "2", "6", "4">>,
    <<"x", "2", "6", "5">>,
    <<"y", "i", "f", "y">> }

\* PARSE_ON = [.\-_\s\[\]\(\)\{\};:,]+
PARSE_ON == {".", "-", "_", "[", "]", "(", ")", "{", "}", ";", ":", ","} \cup WHITESPACE

\* datetime.now().year when the module is loaded
CURRENT_YEAR == 2026

(***************************************************************************)
(* name_normalizor.py: name derivation                                     *)
(***************************************************************************)
\* int(m.group(1)) checked against 1900 <= y <= CURRENT_YEAR; the empty
\* string stands for None
year_in_range(y) == IF 1900 <= str_int(y) /\ str_int(y) <= CURRENT_YEAR THEN y ELSE <<>>

\* the positions of tok at which (19\d{2}|20\d{2}) matches
year_hits(tok) ==
    {i \in 1..(Len(tok) - 3) :
        /\ <<tok[i], tok[i + 1]>> \in {<<"1", "9">>, <<"2", "0">>}
        /\ isdigit(tok[i + 2])
        /\ isdigit(tok[i + 3])}

first_year(tok, hits) ==
    IF hits = {} THEN <<>> ELSE year_in_range(SubSeq(tok, SetMin(hits), SetMin(hits) + 3))

\* extract_year(tok): YEAR_IN_TOKEN.search takes the leftmost match
extract_year(tok) == first_year(tok, year_hits(tok))

\* one alternative of TRAILING_COPY_RE, ignoring case:
\* \(\d+\) | \d+ | copy | dup\d*
copy_word(w, low) ==
    \/ Len(w) >= 3 /\ w[1] = "(" /\ w[Len(w)] = ")"
       /\ \A i \in 2..Len(w) - 1 : isdigit(w[i])
    \/ Len(w) >= 1 /\ \A i \in 1..Len(w) : isdigit(w[i])
    \/ low = <<"c", "o", "p", "y">>
    \/ startswith(low, <<"d", "u", "p">>) /\ \A i \in 4..Len(low) : isdigit(low[i])

IsCopyWord(w) == copy_word(w, str_lower(w))

cut_at(n, starts) == IF starts = {} THEN n ELSE SubSeq(n, 1, SetMin(starts) - 1)

\* TRAILING_COPY_RE.sub("", n): the leftmost position from which the rest
\* of n is \s*(...)\s*$ is where the match starts
strip_trailing_copy(n) ==
    cut_at(n, {i \in 1..Len(n) : IsCopyWord(str_strip(DropFirst(n, i - 1)))})

has_known_ext(n) == \E ext \in MEDIA_EXTS \cup SIDECAR_EXTS : endswith(str_lower(n), ext)

\* the choice normalized_name_for_ext makes between n = name.strip() and
\* stripped = TRAILING_COPY_RE.sub("", n).strip()
pick_normalized(n, stripped) ==
    IF has_known_ext(n) THEN n
    ELSE IF has_known_ext(stripped) THEN stripped
    ELSE n

normalized_name_for_ext(name) ==
    pick_normalized(str_strip(name), str_strip(strip_trailing_copy(str_strip(name))))

smart_title_token(t) ==
    IF t # <<>> /\ \A i \in 1..Len(t) : ch_lower(t[i]) \in {"i", "v", "x", "l", "c", "d", "m"}
    THEN str_upper(t)
    ELSE IF t = <<>> THEN t
    ELSE <<ch_upper(t[1])>> \o str_lower(Tail(t))

\* the tokens hold no whitespace, so the final re.sub(r"\s+", " ") and
\* strip() leave the joined text as it is
smart_title(tokens) ==
    JoinWith([i \in 1..Len(tokens) |-> smart_title_token(tokens[i])], <<" ">>)

\* the loop of parse_base_name over the tokens toks, title_tokens so far;
\* low = tok.lower() and y = extract_year(tok) of the first token
RECURSIVE parse_tokens(_, _)
parse_token(toks, title_tokens, low, y) ==
    IF low \in KNOWN_JUNK_NAMES /\ title_tokens # <<>>
    THEN parse_tokens(Tail(toks), title_tokens)
    ELSE IF y # <<>> /\ title_tokens # <<>>
    THEN [title_tokens |-> title_tokens, year |-> y]
    ELSE IF low \notin KNOWN_JUNK_NAMES
    THEN parse_tokens(Tail(toks), Append(title_tokens, Head(toks)))
    ELSE parse_tokens(Tail(toks), title_tokens)

parse_tokens(toks, title_tokens) ==
    IF toks = <<>> THEN [title_tokens |-> title_tokens, year |-> <<>>]
    ELSE parse_token(toks, title_tokens, str_lower(Head(toks)), extract_year(Head(toks)))

\* (title, year) from the loop's result r; the title falls back to the stem
parsed_base(st, r) ==
    [title |-> IF r.title_tokens # <<>> THEN smart_title(r.title_tokens) ELSE st,
     year |-> r.year]

parse_base_name(st) == parsed_base(st, parse_tokens(SplitOn(st, PARSE_ON), <<>>))

\* the first of sorted(MEDIA_EXTS | SIDECAR_EXTS, key=len, reverse=True) that
\* lower ends with, else the fallback Path(name).suffix.lower()
longest_ext(name, hit) ==
    IF hit # {} THEN CHOOSE ext \in hit : \A e \in hit : Len(e) <= Len(ext)
    ELSE str_lower(suffix(name))

effective_extension_from_name(name) ==
    longest_ext(name, {ext \in MEDIA_EXTS \cup SIDECAR_EXTS :
                          endswith(str_strip(str_lower(name)), ext)})

\* new_base = f"{title} ({year})" if year else title
new_base(parsed) ==
    IF parsed.year # <<>>
    THEN parsed.title \o <<" ", "(">> \o parsed.year \o <<")">>
    ELSE parsed.title

\* new_base of build_rename_plan for a file name
new_base_of(name) == new_base(parse_base_name(stem(normalized_name_for_ext(name))))

\* the name of proposed_vid
proposed_name(name) ==
    new_base_of(name) \o effective_extension_from_name(normalized_name_for_ext(name))

(***************************************************************************)
(* The scanned directory of the name normalizer: the file names a scan may *)
(* find, each in one flat directory.                                       *)
(***************************************************************************)
\* "Movie (1999).mkv"
N_CANON ==
    <<"M", "o", "v", "i", "e", " ", "(", "1", "9", "9", "9", ")", ".", "m", "k", "v">>

\* "Movie (1999) - dup1.mkv"
N_DUP1 ==
    <<"M", "o", "v", "i", "e", " ", "(", "1", "9", "9", "9", ")", " ", "-", " ", "d", "u", "p", "1", ".", "m", "k", "v">>

\* "movie.1999.mkv"
N_MESSY ==
    <<"m", "o", "v", "i", "e", ".", "1", "9", "9", "9", ".", "m", "k", "v">>

\* "Movie.1999.1080p.mkv"
N_JUNK ==
    <<"M", "o", "v", "i", "e", ".", "1", "9", "9", "9", ".", "1", "0", "8", "0", "p", ".", "m", "k", "v">>

\* "movie.1999.srt"
N_SUB ==
    <<"m", "o", "v", "i", "e", ".", "1", "9", "9", "9", ".", "s", "r", "t">>

\* "movie.1999.ENG.srt"
N_SUB_ENG_UP ==
    <<"m", "o", "v", "i", "e", ".", "1", "9", "9", "9", ".", "E", "N", "G", ".", "s", "r", "t">>

\* "movie.1999.eng.srt"
N_SUB_ENG ==
    <<"m", "o", "v", "i", "e", ".", "1", "9", "9", "9", ".", "e", "n", "g", ".", "s", "r", "t">>

\* "movie (1999).mkv"
N_LOWER ==
    <<"m", "o", "v", "i", "e", " ", "(", "1", "9", "9", "9", ")", ".", "m", "k", "v">>

\* "Movie (1999.mkv"
N_OPEN ==
    <<"M", "o", "v", "i", "e", " ", "(", "1", "9", "9", "9", ".", "m", "k", "v">>

\* "Movie (1999).srt"
N_CANON_SUB ==
    <<"M", "o", "v", "i", "e", " ", "(", "1", "9", "9", "9", ")", ".", "s", "r", "t">>

\* "movie.1999.mkv 2"
N_COPY ==
    <<"m", "o", "v", "i", "e", ".", "1", "9", "9", "9", ".", "m", "k", "v", " ", "2">>

\* "clip.mkv"
N_NOYEAR ==
    <<"c", "l", "i", "p", ".", "m", "k", "v">>

RenameNames == {N_CANON, N_DUP1, N_MESSY, N_JUNK, N_SUB, N_SUB_ENG_UP, N_SUB_ENG,
                N_LOWER, N_OPEN, N_CANON_SUB, N_COPY, N_NOYEAR}

RenameUniverse == {<<n>> : n \in RenameNames}

\* what build_rename_plan and iter_media_files derive from each of these
\* names, computed once
RenameFacts ==
    [n \in RenameNames |->
        [stem_norm |-> stem(normalized_name_for_ext(n)),
         year      |-> parse_base_name(stem(normalized_name_for_ext(n))).year,
         new_base  |-> new_base_of(n),
         proposed  |-> proposed_name(n),
         media     |-> has_known_ext(str_lower(normalized_name_for_ext(n))),
         sidecar   |-> suffixes_meet(n, SIDECAR_EXTENSIONS)]]

(***************************************************************************)
(* show_name_normal.py: tables                                             *)
(***************************************************************************)
JUNK_WORDS == {
    <<"n", "f">>,
    <<"n", "e", "t", "f", "l", "i", "x">>,
    <<"a", "m", "z", "n">>,
    <<"a", "m", "a", "z", "o", "n">>,
    <<"p", "r", "i", "m", "e">>,
    <<"h", "u", "l", "u">>,
    <<"d", "s", "n", "p">>,
    <<"d", "i", "s", "n", "e", "y">>,
    <<"i", "t", "u", "n", "e", "s">>,
    <<"w", "e", "b">>,
    <<"w", "e", "b", "d", "l">>,
    <<"w", "e", "b", "r", "i", "p">>,
    <<"h", "d", "t", "v">>,
    <<"p", "d", "t", "v">>,
    <<"d", "v", "d", "r", "i", "p">>,
    <<"b", "d", "r", "i", "p">>,
    <<"b", "r", "r", "i", "p">>,
    <<"b", "l", "u", "r", "a", "y">>,
    <<"r", "e", "m", "u", "x">>,
    <<"u", "h", "d">>,
    <<"h", "d">>,
    <<"s", "d">>,
    <<"4", "k">>,
    <<"2", "1", "6", "0", "p">>,
    <<"1", "0", "8", "0", "p">>,
    <<"7", "2", "0", "p">>,
    <<"4", "8", "0", "p">>,
    <<"x", "2", "6", "4">>,
    <<"x", "2", "6", "5">>,
    <<"h", "2", "6", "4">>,
    <<"h", "2", "6", "5">>,
    <<"h", "e", "v", "c">>,
    <<"a", "v", "1">>,
    <<"a", "a", "c">>,
    <<"a", "c", "3">>,
    <<"e", "a", "c", "3">>,
    <<"d", "d">>,
    <<"d", "d", "p">>,
    <<"d", "t", "s">>,
    <<"t", "r", "u", "e", "h", "d">>,
    <<"a", "t", "m", "o", "s">>,
    <<"c", "o", "m", "p", "l", "e", "t", "e">>,
    <<"r", "e", "p", "a", "c", "k">>,
    <<"p", "r", "o", "p", "e", "r">>,
    <<"e", "x", "t", "e", "n", "d", "e", "d">>,
    <<"u", "n", "r", "a", "t", "e", "d">>,
    <<"i", "n", "t", "e", "r", "n", "a", "l">>,
    <<"d", "u", "b", "b", "e", "d">>,
    <<"s", "u", "b", "b", "e", "d">>,
    <<"s", "u", "b", "s">>,
    <<"m", "u", "l", "t", "i">>,
    <<"r", "e", "a", "d", "n", "f", "o">>,
    <<"n", "f", "o">>,
    <<"h", "d", "r">>,
    <<"s", "d", "r">>,
    <<"c", "a", "m">>,
    <<"h", "d", "c", "a", "m">>,
    <<"t", "s">>,
    <<"h", "d", "t", "s">>,
    <<"t", "c">>,
    <<"h", "d", "t", "c">>,
    <<"s", "c", "r">>,
    <<"s", "c", "r", "e", "e", "n", "e", "r">>,
    <<"d", "v", "d", "s", "c", "r">>,
    <<"r", "5">>,
    <<"l", "i", "n", "e">>,
    <<"r", "a", "r", "b", "g">>,
    <<"e", "z", "t", "v">>,
    <<"y", "i", "f", "y">>,
    <<"t", "g", "x">>,
    <<"H", " ", "2", "6", "4">>,
    <<"m", "a", "x">>,
    <<"h", "b", "o">>,
    <<"h", "b", "o", "m", "a", "x">>,
    <<"X", "2", "6", "4", "-", "D", "I", "M", "E", "N", "S", "I", "O", "N">>,
    <<"D", "D", "P", "5">>,
    <<"X", "v", "i", "D", "-", "D", "E", "M", "A", "N", "D">>,
    <<"W", "E", "B", "-", "D", "L", "R", "i", "p">>,
    <<"x", "2", "6", "4", "-", "B", "o", "B">>
}

KEEP_SHORT_WORDS == {
    <<"a">>,
    <<"a", "n">>,
    <<"a", "n", "d">>,
    <<"a", "s">>,
    <<"a", "t">>,
    <<"b", "y">>,
    <<"f", "o", "r">>,
    <<"f", "r", "o", "m">>,
    <<"i", "n">>,
    <<"o", "f">>,
    <<"o", "n">>,
    <<"o", "r">>,
    <<"t", "h", "e">>,
    <<"t", "o">>,
    <<"w", "i", "t", "h">>,
    <<"n", "e", "w">>,
    <<"o", "l", "d">>,
    <<"b", "a", "d">>,
    <<"b", "i", "g">>,
    <<"w", "a", "r">>,
    <<"m", "a", "n">>,
    <<"m", "r">>,
    <<"m", "s">>,
    <<"d", "r">>,
    <<"v", "s">>,
    <<"p", "t">>,
    <<"p", "a", "r", "t">>
}

EXTRA_JUNK_LITERALS == {
    <<"n", "h", "t", "f", "s">>,
    <<"t", "g", "x">>,
    <<"t", "g", "g", "x">>,
    <<"n", "t", "b">>,
    <<"y", "t", "s">>,
    <<"e", "t", "t", "v">>,
    <<"i", "o", "n", "1", "0">>,
    <<"r", "a", "r", "b", "g">>,
    <<"e", "z", "t", "v">>,
    <<"y", "i", "f", "y">>
}

VIDEO_EXTS == {
    <<".", "m", "k", "v">>,
    <<".", "m", "p", "4">>,
    <<".", "a", "v", "i">>,
    <<".", "m", "4", "v">>,
    <<".", "m", "o", "v">>,
    <<".", "w", "m", "v">>,
    <<".", "m", "2", "t", "s">>
}

\* the alternatives of RE_AUDIO_TOKEN: ddp?|eac3|ac3|aac|dts|truehd
AUDIO_NAMES == {
    <<"d", "d">>,
    <<"d", "d", "p">>,
    <<"e", "a", "c", "3">>,
    <<"a", "c", "3">>,
    <<"a", "a", "c">>,
    <<"d", "t", "s">>,
    <<"t", "r", "u", "e", "h", "d">>
}

VOWELS == {"a", "e", "i", "o", "u"}

\* \w on the model's characters
isword(c) == c \in Range(UPPER) \cup Range(LOWER) \cup DigitSet \cup {"_"}

isalnum(c) == c \in Range(UPPER) \cup Range(LOWER) \cup DigitSet

all_digits(s) == \A i \in 1..Len(s) : isdigit(s[i])

\* str.replace of single characters by ""
without(s, cs) == SelectSeq(s, LAMBDA c : c \notin cs)

\* str.strip(chars) and str.rstrip(chars)
strip_chars(s, cs) ==
    LET keep == {i \in 1..Len(s) : s[i] \notin cs}
    IN  IF keep = {} THEN <<>> ELSE SubSeq(s, SetMin(keep), SetMax(keep))

rstrip_chars(s, cs) ==
    LET keep == {i \in 1..Len(s) : s[i] \notin cs}
    IN  IF keep = {} THEN <<>> ELSE SubSeq(s, 1, SetMax(keep))

\* re.sub(r"\s+", " ", s).strip()
collapse_ws(s) == JoinWith(SplitOn(s, WHITESPACE), <<" ">>)

(***************************************************************************)
(* show_name_normal.py: tokens                                             *)
(***************************************************************************)
\* RE_AUDIO_TOKEN.match(low): an audio name, then optionally a digit, then
\* optionally "." and a digit
RE_AUDIO_TOKEN(low) ==
    \E a \in AUDIO_NAMES :
        /\ startswith(low, a)
        /\ LET rest == DropFirst(low, Len(a))
           IN  \/ rest = <<>>
               \/ Len(rest) = 1 /\ isdigit(rest[1])
               \/ Len(rest) = 3 /\ isdigit(rest[1]) /\ rest[2] = "." /\ isdigit(rest[3])

looks_like_tag(tok) ==
    LET t == str_strip(tok)
        low == str_lower(t)
    IN  IF t = <<>> THEN FALSE
        ELSE IF Len(t) <= 6 /\ str_upper(t) = t /\ low # t
        THEN low \notin KEEP_SHORT_WORDS
        ELSE IF (\E i \in 1..Len(t) : isdigit(t[i])) /\ Len(t) <= 10
        THEN TRUE
        ELSE /\ Len(low) <= 8
             /\ \A i \in 1..Len(low) : isalnum(low[i])
             /\ \A i \in 1..Len(low) : low[i] \notin VOWELS

is_junk_token(tok) ==
    LET low == str_lower(tok)
    IN  \/ low \in JUNK_WORDS
        \/ RE_AUDIO_TOKEN(low)
        \/ without(low, {"-", "_", "."}) \in JUNK_WORDS

\* the match of ^<letter>?(\d{1,2})<sep>(\d{1,3})$ on low: RE_SXXEYY has
\* letter "s" and sep "e", RE_XXxYY has no letter and sep "x"
tag_match(low, letter, sep) ==
    LET body == IF letter = <<>> THEN low ELSE Tail(low)
        at == {i \in 2..3 : /\ i < Len(body)
                            /\ body[i] = sep
                            /\ all_digits(SubSeq(body, 1, i - 1))
                            /\ Len(body) - i <= 3
                            /\ all_digits(DropFirst(body, i))}
    IN  IF (letter # <<>> /\ (low = <<>> \/ low[1] # letter[1])) \/ at = {}
        THEN [matched |-> FALSE, s |-> 0, e |-> 0]
        ELSE LET i == CHOOSE x \in at : TRUE
             IN  [matched |-> TRUE,
                  s |-> str_int(SubSeq(body, 1, i - 1)),
                  e |-> str_int(DropFirst(body, i))]

RE_SXXEYY(low) == tag_match(low, <<"s">>, "e")

RE_XXxYY(low) == tag_match(low, <<>>, "x")

\* RE_YEAR: ^(19\d{2}|20\d{2})$
RE_YEAR(tok) ==
    /\ Len(tok) = 4
    /\ all_digits(tok)
    /\ SubSeq(tok, 1, 2) \in {<<"1", "9">>, <<"2", "0">>}

\* re.sub(r"\[[^\]]*\]|\([^\)]*\)|\{[^\}]*\}", " ", s): each bracketed chunk,
\* from an opener to the first matching closer, becomes one space
CLOSER == [c \in {"[", "(", "{"} |-> IF c = "[" THEN "]" ELSE IF c = "(" THEN ")" ELSE "}"]

RECURSIVE remove_bracketed(_)
remove_bracketed(s) ==
    IF s = <<>> THEN <<>>
    ELSE LET ends == IF s[1] \in DOMAIN CLOSER
                     THEN {i \in 2..Len(s) : s[i] = CLOSER[s[1]]}
                     ELSE {}
         IN  IF ends = {} THEN <<s[1]>> \o remove_bracketed(Tail(s))
             ELSE <<" ">> \o remove_bracketed(DropFirst(s, SetMin(ends)))

\* the end of a match of (?i)\bh\s*[.\-_ ]\s*26([45])\b that starts at s[1]
\* (prev is the character before it, <<>> at the start of the string); 0 = none
h26_match(prev, s) ==
    LET digits == {i \in 3..Len(s) - 2 :
                      /\ s[i] = "2" /\ s[i + 1] = "6" /\ s[i + 2] \in {"4", "5"}
                      /\ \A j \in 2..i - 1 : s[j] \in {" ", ".", "-", "_"}
                      /\ Cardinality({j \in 2..i - 1 : s[j] # " "}) <= 1
                      /\ (i + 3 > Len(s) \/ ~isword(s[i + 3]))}
    IN  IF s # <<>> /\ s[1] \in {"h", "H"} /\ (prev = <<>> \/ ~isword(prev[1]))
           /\ digits # {}
        THEN SetMin(digits) + 2
        ELSE 0

\* re.sub(r"(?i)\bh\s*[.\-_ ]\s*26([45])\b", r"h26\1", s), scanning from s[1]
RECURSIVE h26_sub(_, _)
h26_sub(prev, s) ==
    IF s = <<>> THEN <<>>
    ELSE LET n == h26_match(prev, s)
         IN  IF n = 0 THEN <<s[1]>> \o h26_sub(<<s[1]>>, Tail(s))
             ELSE <<"h", "2", "6", s[n]>> \o h26_sub(<<s[n]>>, DropFirst(s, n))

TOKEN_SEPARATORS == {"[", "]", "(", ")", "{", "}", ".", "_", "-", "/", "+", ","} \cup WHITESPACE

\* normalize_for_tokens(stem): brackets and separators become spaces, runs of
\* whitespace collapse, the ends are stripped
normalize_for_tokens(st) == JoinWith(SplitOn(h26_sub(<<>>, st), TOKEN_SEPARATORS), <<" ">>)

\* tokenize(stem)
tokenize(st) == SplitOn(normalize_for_tokens(st), {" "})

NONE == -1

\* one pass of the loop of classify_tokens: tok with low = tok.lower(),
\* m1 = RE_SXXEYY.match(low), m2 = RE_XXxYY.match(low), from the state acc
classify_token(tok, low, m1, m2, acc) ==
    IF m1.matched
    THEN [acc EXCEPT !.season = m1.s, !.episode = m1.e, !.removed = Append(@, tok)]
    ELSE IF looks_like_tag(tok) /\ low \notin KEEP_SHORT_WORDS
    THEN [acc EXCEPT !.removed = Append(@, tok)]
    ELSE IF m2.matched
    THEN [acc EXCEPT !.season = m2.s, !.episode = m2.e, !.removed = Append(@, tok)]
    ELSE IF is_junk_token(tok) \/ low \in EXTRA_JUNK_LITERALS \/ RE_YEAR(tok)
    THEN [acc EXCEPT !.removed = Append(@, tok)]
    ELSE [acc EXCEPT !.title = Append(@, tok)]

\* classify_tokens(tokens) from the state acc of the loop on
RECURSIVE classify_loop(_, _)
classify_loop(tokens, acc) ==
    IF tokens = <<>> THEN acc
    ELSE classify_loop(Tail(tokens),
                       classify_token(tokens[1], str_lower(tokens[1]),
                                      RE_SXXEYY(str_lower(tokens[1])),
                                      RE_XXxYY(str_lower(tokens[1])), acc))

classify_tokens(tokens) ==
    classify_loop(tokens, [season |-> NONE, episode |-> NONE, title |-> <<>>, removed |-> <<>>])

\* the value parse_episode_from_filename makes of classify_tokens' result c;
\* ok = FALSE is None
parsed_episode(c) ==
    [ok |-> c.season # NONE /\ c.episode # NONE,
     season |-> c.season, episode |-> c.episode,
     title |-> collapse_ws(JoinWith(c.title, <<" ">>))]

\* parse_episode_from_filename(filename)
parse_episode_from_filename(filename) ==
    parsed_episode(classify_tokens(tokenize(remove_bracketed(stem(filename)))))

\* clean_title_from_filename(filename, fallback_title)
clean_title_from_filename(filename, fallback_title) ==
    strip_chars(collapse_ws(JoinWith(
                    classify_tokens(tokenize(remove_bracketed(fallback_title))).title,
                    <<" ">>)),
                {" ", ".", "-", "_"})

\* z2(n): f"{n:02d}"
z2(n) == IF n < 10 THEN <<"0">> \o int_str(n) ELSE int_str(n)

\* base[:-len(ext)].rstrip(" .-_") for the video extension base ends with
cut_video_ext(base, hit) ==
    IF hit = {} THEN base
    ELSE rstrip_chars(SubSeq(base, 1, Len(base) - Len(CHOOSE ext \in hit : TRUE)),
                      {" ", ".", "-", "_"})

\* ensure_single_extension(base_no_ext, src), src given by its name
ensure_single_extension(base_no_ext, src_name) ==
    cut_video_ext(str_strip(base_no_ext),
                  {ext \in VIDEO_EXTS : endswith(str_lower(str_strip(base_no_ext)), ext)})
    \o str_lower(suffix(src_name))

\* season_folder(show_dir, season), below show_dir
season_folder(season) == <<<<"S", "e", "a", "s", "o", "n", " ">> \o z2(season)>>

\* title after "if title.lower() == show_name_clean.lower()" and
\* "if title.lower().startswith(show_name_clean.lower() + ' ')"
drop_show_name(title, show_name_clean) ==
    IF str_lower(title) = str_lower(show_name_clean) THEN <<>>
    ELSE IF startswith(str_lower(title), str_lower(show_name_clean) \o <<" ">>)
    THEN strip_chars(DropFirst(title, Len(show_name_clean)), {" ", "-", ".", "_"})
    ELSE title

\* new_base: f"{show_name_clean} - {ep_tag}" + (f" - {title}" if title else "")
show_new_base(show_name_clean, season, episode, title) ==
    show_name_clean \o <<" ", "-", " ", "S">> \o z2(season) \o <<"E">> \o z2(episode)
    \o (IF title # <<>> THEN <<" ", "-", " ">> \o title ELSE <<>>)

\* the body of build_plan_for_show_dir's loop after "parsed = ..." up to
\* dst_dir / new_name; ok = FALSE is the "continue" of an untagged name
show_target_of(src_name, show_name_clean, parsed) ==
    IF ~parsed.ok THEN [ok |-> FALSE, path |-> <<>>]
    ELSE [ok |-> TRUE,
          path |-> Append(season_folder(parsed.season),
                     ensure_single_extension(
                        show_new_base(show_name_clean, parsed.season, parsed.episode,
                            drop_show_name(
                                strip_chars(collapse_ws(
                                    clean_title_from_filename(src_name, parsed.title)),
                                    {" ", ".", "-", "_"}),
                                show_name_clean)),
                        src_name))]

show_target(src_name, show_name) ==
    show_target_of(src_name, collapse_ws(show_name), parse_episode_from_filename(src_name))

(***************************************************************************)
(* show_name_normal.py: the files of the model's show folder               *)
(***************************************************************************)
\* Show.S01E02.720p.mkv
E_720 ==
    <<"S", "h", "o", "w", ".", "S", "0", "1", "E", "0", "2", ".", "7", "2", "0", "p", ".", "m", "k", "v">>

\* Show.S01E02.1080p.mkv
E_1080 ==
    <<"S", "h", "o", "w", ".", "S", "0", "1", "E", "0", "2", ".", "1", "0", "8", "0", "p", ".", "m", "k", "v">>

\* Show - S01E02.mkv
E_CANON ==
    <<"S", "h", "o", "w", " ", "-", " ", "S", "0", "1", "E", "0", "2", ".", "m", "k", "v">>

\* Show - S01E02 - dup1.mkv
E_DUP1 ==
    <<"S", "h", "o", "w", " ", "-", " ", "S", "0", "1", "E", "0", "2", " ", "-", " ", "d", "u", "p", "1", ".", "m", "k", "v">>

\* Show - S01E02 - dup2.mkv
E_DUP2 ==
    <<"S", "h", "o", "w", " ", "-", " ", "S", "0", "1", "E", "0", "2", " ", "-", " ", "d", "u", "p", "2", ".", "m", "k", "v">>

\* Show.S01E02.Pilot.mkv
E_PILOT ==
    <<"S", "h", "o", "w", ".", "S", "0", "1", "E", "0", "2", ".", "P", "i", "l", "o", "t", ".", "m", "k", "v">>

\* Show.1x02.mkv
E_1X02 ==
    <<"S", "h", "o", "w", ".", "1", "x", "0", "2", ".", "m", "k", "v">>

\* notes.mkv
E_NOTES ==
    <<"n", "o", "t", "e", "s", ".", "m", "k", "v">>

\* the show name the operator enters
SHOW_NAME == <<"S", "h", "o", "w">>

SEASON_01 == <<"S", "e", "a", "s", "o", "n", " ", "0", "1">>

ShowNames == {E_720, E_1080, E_CANON, E_DUP1, E_DUP2, E_PILOT, E_1X02, E_NOTES}

\* loose files of the show folder and files already inside "Season 01"
ShowUniverse == {<<n>> : n \in {E_720, E_1080, E_PILOT, E_1X02, E_NOTES}}
                \cup {<<SEASON_01, n>> : n \in {E_CANON, E_DUP1, E_DUP2}}

\* what build_plan_for_show_dir derives from each of these names, computed once
ShowFacts ==
    [n \in ShowNames |->
        [video  |-> str_lower(suffix(n)) \in VIDEO_EXTS,
         target |-> show_target(n, SHOW_NAME)]]

\* the season number the operator enters in season-folder mode
SEASON_NUM == 3

\* the files of a season folder, for build_plan_season_folder
SeasonUniverse == {<<n>> : n \in {E_720, E_1080, E_CANON, E_PILOT, E_1X02, E_NOTES}}

\* the body of build_plan_season_folder's loop after "parsed = ..." up to
\* src.with_name(new_name): the season is the operator's, the title is used
\* as it was cleaned
season_target_of(src_name, show_name, season_num, parsed) ==
    IF ~parsed.ok THEN [ok |-> FALSE, path |-> <<>>]
    ELSE [ok |-> TRUE,
          path |-> <<ensure_single_extension(
                        show_new_base(show_name, season_num, parsed.episode,
                            strip_chars(collapse_ws(
                                clean_title_from_filename(src_name, parsed.title)),
                                {" ", ".", "-", "_"})),
                        src_name)>>]

\* what build_plan_season_folder derives from each name, computed once; the
\* show name is input(...).strip()
SeasonFacts ==
    [n \in ShowNames |->
        season_target_of(n, str_strip(SHOW_NAME), SEASON_NUM,
                         parse_episode_from_filename(n))]

(***************************************************************************)
(* sort_movies.py: the paths of the model's source and destination roots   *)
(***************************************************************************)
\* src
SRC ==
    <<"s", "r", "c">>

\* dst
DST ==
    <<"d", "s", "t">>

\* movies
MOVIES ==
    <<"m", "o", "v", "i", "e", "s">>

\* M
LETTER_M ==
    <<"M">>

\* A
LETTER_A ==
    <<"A">>

\* Movie (1999)
M_BASE ==
    <<"M", "o", "v", "i", "e", " ", "(", "1", "9", "9", "9", ")">>

\* Alien (1979)
A_BASE ==
    <<"A", "l", "i", "e", "n", " ", "(", "1", "9", "7", "9", ")">>

\* Movie (1999).mkv
M_MKV ==
    <<"M", "o", "v", "i", "e", " ", "(", "1", "9", "9", "9", ")", ".", "m", "k", "v">>

\* Movie (1999).srt
M_SRT ==
    <<"M", "o", "v", "i", "e", " ", "(", "1", "9", "9", "9", ")", ".", "s", "r", "t">>

\* Alien (1979).mkv
A_MKV ==
    <<"A", "l", "i", "e", "n", " ", "(", "1", "9", "7", "9", ")", ".", "m", "k", "v">>

\* Movie (1999) - dup1.mkv
M_MKV_DUP1 ==
    <<"M", "o", "v", "i", "e", " ", "(", "1", "9", "9", "9", ")", " ", "-", " ", "d", "u", "p", "1", ".", "m", "k", "v">>

\* Movie (1999) - dup2.mkv
M_MKV_DUP2 ==
    <<"M", "o", "v", "i", "e", " ", "(", "1", "9", "9", "9", ")", " ", "-", " ", "d", "u", "p", "2", ".", "m", "k", "v">>

\* a loose movie with its subtitle, and a single-movie folder
S_VIDEO == <<SRC, M_MKV>>

S_SIDECAR == <<SRC, M_SRT>>

S_FOLDER == <<SRC, A_BASE>>

\* dest_root / "movies" / letter / base
D_MOVIE_DIR == <<DST, MOVIES, LETTER_M, M_BASE>>

D_FOLDER == <<DST, MOVIES, LETTER_A, A_BASE>>

BONUS_DIR_NAME == <<"B", "O", "N", "U", "S", "_", "F", "E", "A", "T", "U", "R", "E", "S">>

\* Movie (1999).mp4
M_MP4 ==
    <<"M", "o", "v", "i", "e", " ", "(", "1", "9", "9", "9", ")", ".", "m", "p", "4">>

\* Alien (1979).srt
A_SRT ==
    <<"A", "l", "i", "e", "n", " ", "(", "1", "9", "7", "9", ")", ".", "s", "r", "t">>

\* Show S01E02.mkv
T_MKV ==
    <<"S", "h", "o", "w", " ", "S", "0", "1", "E", "0", "2", ".", "m", "k", "v">>

\* Making Of.mkv
B_MKV ==
    <<"M", "a", "k", "i", "n", "g", " ", "O", "f", ".", "m", "k", "v">>

SortNames == {M_MKV, M_MP4, M_SRT, A_MKV, A_SRT, T_MKV, B_MKV}

\* the trees build_sort_plan is run on: loose files of the source root (two
\* videos of one title, a subtitle, an episode), a movie folder with a
\* subtitle and a BONUS_FEATURES folder, and two occupied destinations
SortPlanUniverse ==
    {<<SRC, n>> : n \in {M_MKV, M_MP4, M_SRT, T_MKV}}
    \cup {Append(S_FOLDER, n) : n \in {A_MKV, A_SRT}}
    \cup {S_FOLDER \o <<BONUS_DIR_NAME, B_MKV>>,
          Append(D_MOVIE_DIR, M_MKV), Append(D_FOLDER, A_MKV)}

SortUniverse ==
    {S_VIDEO, S_SIDECAR, Append(S_FOLDER, A_MKV)}
    \cup {Append(D_MOVIE_DIR, n) : n \in {M_MKV, M_MKV_DUP1, M_MKV_DUP2}}

\* the entries a plan may hold for these paths
SortItems ==
    {[original |-> D_MOVIE_DIR, proposed |-> D_MOVIE_DIR, action |-> "mkdir"],
     [original |-> S_VIDEO, proposed |-> Append(D_MOVIE_DIR, M_MKV), action |-> "move_video"],
     [original |-> S_SIDECAR, proposed |-> Append(D_MOVIE_DIR, M_SRT), action |-> "move_sidecar"],
     [original |-> S_FOLDER, proposed |-> D_FOLDER, action |-> "move_folder"]}

\* the plans of at most MaxFiles entries, in every order
SortPlans ==
    {q \in UNION {[1..m -> SortItems] : m \in 0..MaxFiles} :
        \A i, j \in DOMAIN q : q[i] = q[j] => i = j}

(***************************************************************************)
(* State.                                                                  *)
(***************************************************************************)
VARIABLES
    tool,           \* which program runs: "rename", "show" (show_name_normal.py in
                    \* show mode), "show_season" (in season mode), "sort"; or which
                    \* functions of sort_movies.py: "sort_fn", "sort_apply",
                    \* "sort_plan"; or "fn", one parsing function on its own
    ci,             \* the volume is case-insensitive (macOS default)
    include_noops,  \* build_rename_plan's parameter
    disk,           \* path -> the file stored there (named by its first path)
    pc,             \* position of the program
    files,          \* the list the planning loop walks
    idx,            \* position of the planning loop in files
    sc_left,        \* find_sidecars(vid) entries the inner loop has not reached
    reserved,       \* the reservation set of the pass
    claimed,        \* the reservations of the pass in the order they were made
    plan,           \* the plan built so far
    last_resolve,   \* the last call of a collision resolver and its result
    queue,          \* the order in which the executor walks the plan
    cur,            \* position of the executor in queue
    uchg,           \* paths that carry the immutability flag
    denied,         \* paths whose rename fails with PermissionError for another reason
    locked,         \* has_uchg(item.original) as read by the failure handler
    auto_unlock,    \* apply_plan's auto_unlock
    attempts,       \* the plan items whose move was called, in order
    answer,         \* what the operator typed at the last prompt; "none" before
                    \* the first prompt and while an item has not led to one
    lost,           \* files destroyed because a move landed on their path
    applied,        \* how many times an apply was started on the stored plan
    autos,          \* automatic unlock-and-retries of the current item since
                    \* its last prompt
    source,         \* the sorter's SOURCE
    dest,           \* the sorter's DEST
    fn,             \* the function run on its own (tool "fn"), else "none"
    arg,            \* its argument
    result          \* what it returned; NoResult before the call

vars == <<tool, ci, include_noops, disk, pc, files, idx, sc_left, reserved, claimed, plan,
          last_resolve, queue, cur, uchg, denied, locked, auto_unlock, attempts, answer, lost,
          applied, autos, source, dest, fn, arg, result>>

planVars == <<files, idx, sc_left, reserved, claimed, plan, last_resolve>>

applyVars == <<queue, cur, uchg, denied, locked, auto_unlock, attempts, answer, lost, applied,
              autos>>

fnVars == <<fn, arg, result>>

menuVars == <<source, dest>>

NoCall == [called |-> FALSE]

NoResult == [returned |-> FALSE]

(***************************************************************************)
(* The file system.                                                        *)
(***************************************************************************)
\* key_path: str(p).casefold()
key_path(p) == [i \in 1..Len(p) |-> str_lower(p[i])]

\* the directory entries a path names on the volume
entries(d, p) == {q \in DOMAIN d : q = p \/ (ci /\ key_path(q) = key_path(p))}

\* Path.exists()
exists(d, p) == entries(d, p) # {}

file_at(d, p) == d[CHOOSE q \in entries(d, p) : TRUE]

\* is_same_file(a, b): both exist and os.path.samefile
is_same_file(d, a, b) == exists(d, a) /\ exists(d, b) /\ file_at(d, a) = file_at(d, b)

\* os.rename(src, dst) of an existing src on a POSIX volume: dst is replaced
\* silently when it holds another file
rename(d, src, dst) ==
    LET from == CHOOSE q \in entries(d, src) : TRUE
        gone == entries(d, dst) \cup {from}
        keep == DOMAIN d \ gone
    IN  [p \in keep \cup {dst} |-> IF p = dst THEN d[from] ELSE d[p]]

\* the files a rename of src onto dst destroys
clobbered(d, src, dst) ==
    IF exists(d, dst) /\ ~is_same_file(d, src, dst) THEN {file_at(d, dst)} ELSE {}

(***************************************************************************)
(* name_normalizor.py: scan and collision resolution                       *)
(***************************************************************************)
\* iter_media_files(root): the media and sidecar files, sorted
iter_media_files(d) ==
    sorted({p \in DOMAIN d : RenameFacts[path_name(p)].media})

\* Path(f"{base} - dup{i}{ext}") with base = target.with_suffix(""), ext = target.suffix
dup_candidate(target, i) ==
    with_name(target, stem(path_name(target)) \o <<" ", "-", " ", "d", "u", "p">>
                      \o int_str(i) \o suffix(path_name(target)))

\* dup_loop with a defect: the last free candidate instead of the first
dup_loop_last_free(target, rsv, d, i) ==
    IF \A n \in i..MaxDup : exists(d, dup_candidate(target, n))
                              \/ key_path(dup_candidate(target, n)) \in rsv
    THEN [ok |-> FALSE, path |-> target, probes |-> MaxDup]
    ELSE [ok |-> TRUE,
          path |-> dup_candidate(target,
                      SetMax({n \in i..MaxDup :
                                 /\ ~exists(d, dup_candidate(target, n))
                                 /\ key_path(dup_candidate(target, n)) \notin rsv})),
          probes |-> MaxDup]

\* the loop "for i in range(1, 1000)" from i on; ok = FALSE is the RuntimeError
RECURSIVE dup_loop(_, _, _, _)
dup_loop(target, rsv, d, i) ==
    IF i > MaxDup THEN [ok |-> FALSE, path |-> target, probes |-> i - 1]
    ELSE LET cand == dup_candidate(target, i)
         IN  IF ~exists(d, cand) /\ key_path(cand) \notin rsv
             THEN [ok |-> TRUE, path |-> cand, probes |-> i]
             ELSE dup_loop(target, rsv, d, i + 1)

\* resolve_collision with a defect: the reservation set is not consulted
resolve_collision_disk_only(target, rsv, d) ==
    IF ~exists(d, target) THEN [ok |-> TRUE, path |-> target, probes |-> 0]
    ELSE dup_loop(target, {}, d, 1)

\* resolve_collision with a defect: when every candidate is taken the desired
\* path is returned instead of raising
resolve_collision_no_raise(target, rsv, d) ==
    IF ~exists(d, target) /\ key_path(target) \notin rsv
    THEN [ok |-> TRUE, path |-> target, probes |-> 0]
    ELSE [dup_loop(target, rsv, d, 1) EXCEPT !.ok = TRUE]

\* resolve_collision(target, reserved); the caller adds key_path(path) to
\* reserved when ok
resolve_collision(target, rsv, d) ==
    IF ~exists(d, target) /\ key_path(target) \notin rsv
    THEN [ok |-> TRUE, path |-> target, probes |-> 0]
    ELSE dup_loop(target, rsv, d, 1)

\* build_rename_plan.resolve_collision_reserved(target)
resolve_collision_reserved(target) == resolve_collision(target, reserved, disk)

is_in_bonus_features(p) == \E i \in 1..Len(p) : str_lower(p[i]) = str_lower(BONUS_DIR_NAME)

\* find_sidecars(video_file), as the set parent.iterdir() yields in some order
find_sidecars(d, video_file) ==
    LET st == RenameFacts[path_name(video_file)].stem_norm
    IN  {p \in DOMAIN d :
            /\ path_parent(p) = path_parent(video_file)
            /\ ~is_in_bonus_features(p)
            /\ startswith(path_name(p), st)
            /\ RenameFacts[path_name(p)].sidecar}

Item(original, proposed, action) ==
    [original |-> original, proposed |-> proposed, action |-> action]

\* by: "reserved" (name_normalizor), "disk" (show_name_normal), "path" and
\* "dir" (sort_movies)
Called(by, target, res) ==
    [called |-> TRUE, by |-> by, target |-> target, before |-> reserved,
     ok |-> res.ok, path |-> res.path, probes |-> res.probes]

(***************************************************************************)
(* Initial states: a directory of at most MaxFiles files.                  *)
(***************************************************************************)
Universe(t) ==
    IF t = "rename" THEN RenameUniverse
    ELSE IF t = "show" THEN ShowUniverse
    ELSE IF t = "show_season" THEN SeasonUniverse
    ELSE IF t \in {"sort", "sort_plan"} THEN SortPlanUniverse
    ELSE SortUniverse

\* what a directory created by mkdir holds in disk
DIR == <<>>

\* gone
GONE ==
    <<"g", "o", "n", "e">>

\* the directories the sorter's menu is started with
Roots(t) == IF t \in {"sort", "sort_apply"} THEN {<<SRC>>, <<DST>>} ELSE {}

\* what SOURCE and DEST are set to in the sorter's menu: the two roots, a
\* path that does not exist, a file, a folder inside SOURCE
Sources(t) == IF t \in {"sort", "sort_apply"} THEN {<<SRC>>, <<GONE>>, S_VIDEO} ELSE {<<SRC>>}

Dests(t) ==
    IF t \in {"sort", "sort_apply"} THEN {<<DST>>, <<SRC>>, S_FOLDER, <<GONE>>} ELSE {<<DST>>}

\* the plans apply_sort_plan is run on; the other tools build theirs
StartPlans(t) == IF t = "sort_apply" THEN SortPlans ELSE {<<>>}

Init ==
    \E t \in {"rename", "show", "show_season", "sort", "sort_plan", "sort_fn",
              "sort_apply"} :
    \E c \in BOOLEAN, n \in BOOLEAN, S \in SUBSET Universe(t), p0 \in StartPlans(t),
       s0 \in Sources(t), d0 \in Dests(t) :
        /\ Cardinality(S) <= MaxFiles
        /\ c => \A p, q \in S : key_path(p) = key_path(q) => p = q
        /\ t # "rename" => ~n
        /\ t \in {"sort", "sort_plan", "sort_fn", "sort_apply"} => ~c
        /\ tool = t
        /\ ci = c
        /\ include_noops = n
        /\ disk = [p \in S \cup Roots(t) |-> IF p \in S THEN p ELSE DIR]
        /\ source = s0
        /\ dest = d0
        /\ pc = IF t = "sort_fn" THEN "call" ELSE IF t = "sort_apply" THEN "planned" ELSE "scan"
        /\ files = <<>>
        /\ idx = 1
        /\ sc_left = {}
        /\ reserved = {}
        /\ claimed = <<>>
        /\ plan = p0
        /\ last_resolve = NoCall
        /\ queue = <<>>
        /\ cur = 1
        /\ uchg = {}
        /\ denied = {}
        /\ locked = FALSE
        /\ auto_unlock = FALSE
        /\ attempts = <<>>
        /\ answer = "none"
        /\ lost = {}
        /\ applied = 0
        /\ autos = 0
        /\ fn = "none"
        /\ arg = <<>>
        /\ result = NoResult

(***************************************************************************)
(* build_rename_plan                                                       *)
(***************************************************************************)
\* files = iter_media_files(cwd); build_rename_plan(files) starts
Scan ==
    /\ tool = "rename"
    /\ pc = "scan"
    /\ files' = iter_media_files(disk)
    /\ idx' = 1
    /\ reserved' = {}
    /\ claimed' = <<>>
    /\ plan' = <<>>
    /\ sc_left' = {}
    /\ last_resolve' = NoCall
    /\ pc' = "vid"
    /\ UNCHANGED <<tool, ci, include_noops, disk>>
    /\ UNCHANGED applyVars
    /\ UNCHANGED fnVars
    /\ UNCHANGED menuVars

\* the collision-skip branch with a defect: nothing is reserved
reserve_nothing(rsv, proposed) == rsv

\* reserved.add(key_path(proposed)) of a collision-skip branch
reserve_skipped(rsv, proposed) == rsv \cup {key_path(proposed)}

\* what the pass has reserved, in order: the source, the key and the branch
Claim(original, proposed, action) ==
    [source |-> original, key |-> key_path(proposed), action |-> action]

\* one pass of "for vid in video_files" up to the sidecar loop
PlanVideo ==
    /\ tool = "rename"
    /\ pc = "vid"
    /\ idx <= Len(files)
    /\ LET vid == files[idx]
           proposed_vid == with_name(vid, RenameFacts[path_name(vid)].proposed)
           noop == \/ exists(disk, proposed_vid) /\ is_same_file(disk, vid, proposed_vid)
                   \/ path_name(proposed_vid) = path_name(vid)
           skip == exists(disk, proposed_vid) /\ ~is_same_file(disk, vid, proposed_vid)
           res == resolve_collision_reserved(proposed_vid)
       IN  IF noop
           THEN /\ plan' = IF include_noops
                           THEN Append(plan, Item(vid, proposed_vid, "noop_video"))
                           ELSE plan
                /\ reserved' = reserved \cup {key_path(proposed_vid)}
                /\ claimed' = Append(claimed, Claim(vid, proposed_vid, "noop_video"))
                /\ last_resolve' = NoCall
                /\ idx' = idx + 1
                /\ UNCHANGED <<pc, sc_left>>
           ELSE IF skip
           THEN /\ plan' = IF include_noops
                           THEN Append(plan, Item(vid, proposed_vid, "collision_skip"))
                           ELSE plan
                /\ reserved' = reserve_skipped(reserved, proposed_vid)
                /\ claimed' = Append(claimed, Claim(vid, proposed_vid, "collision_skip"))
                /\ last_resolve' = NoCall
                /\ idx' = idx + 1
                /\ UNCHANGED <<pc, sc_left>>
           ELSE /\ last_resolve' = Called("reserved", proposed_vid, res)
                /\ IF res.ok
                   THEN /\ reserved' = reserved \cup {key_path(res.path)}
                        /\ claimed' = Append(claimed, Claim(vid, res.path, "rename_video"))
                        /\ plan' = Append(plan, Item(vid, res.path, "rename_video"))
                        /\ sc_left' = find_sidecars(disk, vid)
                        /\ IF find_sidecars(disk, vid) = {}
                           THEN idx' = idx + 1 /\ pc' = "vid"
                           ELSE idx' = idx /\ pc' = "sc"
                   ELSE /\ pc' = "fatal"
                        /\ UNCHANGED <<reserved, claimed, plan, sc_left, idx>>
    /\ UNCHANGED <<tool, ci, include_noops, disk, files>>
    /\ UNCHANGED applyVars
    /\ UNCHANGED fnVars
    /\ UNCHANGED menuVars

\* one pass of "for sc in find_sidecars(vid)"
PlanSidecar ==
    /\ tool = "rename"
    /\ pc = "sc"
    /\ \E sc \in sc_left :
        LET vid == files[idx]
            video_stem_norm == RenameFacts[path_name(vid)].stem_norm
            tail == DropFirst(path_name(sc), Len(video_stem_norm))
            proposed_sc == with_name(sc, RenameFacts[path_name(vid)].new_base \o tail)
            same_name == path_name(proposed_sc) = path_name(sc)
            same_file == exists(disk, proposed_sc) /\ is_same_file(disk, sc, proposed_sc)
            skip == exists(disk, proposed_sc) /\ ~is_same_file(disk, sc, proposed_sc)
            res == resolve_collision_reserved(proposed_sc)
            more == sc_left \ {sc} # {}
        IN  /\ sc_left' = sc_left \ {sc}
            /\ IF same_name \/ same_file
               THEN /\ reserved' = reserved \cup {key_path(proposed_sc)}
                    /\ claimed' = Append(claimed, Claim(sc, proposed_sc, "noop_sidecar"))
                    /\ plan' = IF include_noops /\ ~same_name
                               THEN Append(plan, Item(sc, proposed_sc, "noop_sidecar"))
                               ELSE plan
                    /\ last_resolve' = NoCall
                    /\ pc' = IF more THEN "sc" ELSE "vid"
                    /\ idx' = IF more THEN idx ELSE idx + 1
               ELSE IF skip
               THEN /\ reserved' = reserve_skipped(reserved, proposed_sc)
                    /\ claimed' = Append(claimed,
                                         Claim(sc, proposed_sc, "collision_skip_sidecar"))
                    /\ plan' = IF include_noops
                               THEN Append(plan, Item(sc, proposed_sc, "collision_skip_sidecar"))
                               ELSE plan
                    /\ last_resolve' = NoCall
                    /\ pc' = IF more THEN "sc" ELSE "vid"
                    /\ idx' = IF more THEN idx ELSE idx + 1
               ELSE /\ last_resolve' = Called("reserved", proposed_sc, res)
                    /\ IF res.ok
                       THEN /\ reserved' = reserved \cup {key_path(res.path)}
                            /\ claimed' = Append(claimed, Claim(sc, res.path, "rename_sidecar"))
                            /\ plan' = Append(plan, Item(sc, res.path, "rename_sidecar"))
                            /\ pc' = IF more THEN "sc" ELSE "vid"
                            /\ idx' = IF more THEN idx ELSE idx + 1
                       ELSE /\ pc' = "fatal"
                            /\ UNCHANGED <<reserved, claimed, plan, idx>>
    /\ UNCHANGED <<tool, ci, include_noops, disk, files>>
    /\ UNCHANGED applyVars
    /\ UNCHANGED fnVars
    /\ UNCHANGED menuVars

\* "return plan"
PlanReturn ==
    /\ tool = "rename"
    /\ pc = "vid"
    /\ idx > Len(files)
    /\ pc' = "planned"
    /\ UNCHANGED <<tool, ci, include_noops, disk>>
    /\ UNCHANGED planVars
    /\ UNCHANGED applyVars
    /\ UNCHANGED fnVars
    /\ UNCHANGED menuVars

(***************************************************************************)
(* name_normalizor.py: interactive_menu choice 5 and apply_plan            *)
(***************************************************************************)
select(seq, action) == SelectSeq(seq, LAMBDA x : x.action = action)

\* sidecars + videos: the order in which apply_plan walks the plan
apply_order(p) == select(p, "rename_sidecar") \o select(p, "rename_video")

\* the paths of a queue that a lock can sit on when the apply starts
lockable(q) == {q[i].original : i \in 1..Len(q)} \cap DOMAIN disk

\* what the operator may type at a confirmation prompt
CONFIRM_INPUTS == {"1", "YES", ""}

\* the confirmation test with a defect: every input confirms
confirms_anything(t, c) == TRUE

\* the confirmation tests of the three menus: confirm == "1" in
\* name_normalizor.py, confirm == "YES" in sort_movies.py and show_name_normal.py
confirms(t, c) == c = (IF t = "rename" THEN "1" ELSE "YES")

\* the menu loop waits for a choice: a plan was built, or an apply has returned
AtMenu == pc \in {"planned", "done"}

\* choice 5 with an empty last_plan, in the name normalizer and the sorter:
\* "Nothing to apply. Run Scan first." and back to the menu
NothingToApply ==
    /\ tool \in {"rename", "sort_apply"}
    /\ AtMenu
    /\ plan = <<>>
    /\ UNCHANGED vars

\* choice 5 and the confirmation prompt: with "1" apply_plan(last_plan) starts,
\* with anything else the menu prints "Cancelled." and keeps the plan.
\* last_plan is the plan of choice 3, build_rename_plan(files), which leaves
\* include_noops at its default. The flags of the files are read in the apply
\* for the first time, so they are chosen here.
StartApply ==
    /\ tool = "rename"
    /\ AtMenu
    /\ ~include_noops
    /\ plan # <<>>
    /\ applied < MaxApplies
    /\ \E c \in CONFIRM_INPUTS :
        /\ answer' = c
        /\ IF confirms(tool, c)
           THEN /\ queue' = apply_order(plan)
                /\ \E u \in SUBSET lockable(apply_order(plan)),
                      x \in SUBSET lockable(apply_order(plan)) :
                    /\ Cardinality(u) + Cardinality(x) <= MaxLocked
                    /\ u \cap x = {}
                    /\ uchg' = u
                    /\ denied' = x
                /\ cur' = 1
                /\ auto_unlock' = FALSE
                /\ locked' = FALSE
                /\ attempts' = <<>>
                /\ applied' = applied + 1
                /\ pc' = "apply"
           ELSE UNCHANGED <<queue, uchg, denied, cur, auto_unlock, locked, attempts, applied, pc>>
    /\ UNCHANGED <<tool, ci, include_noops, disk, lost, autos>>
    /\ UNCHANGED planVars
    /\ UNCHANGED fnVars
    /\ UNCHANGED menuVars

\* item.original.rename(item.proposed) inside "while True" and its three
\* outcomes: success, PermissionError, any other exception
ApplyRename ==
    /\ tool = "rename"
    /\ pc \in {"apply", "retry"}
    /\ cur <= Len(queue)
    /\ LET item == queue[cur]
           src == item.original
       IN  /\ attempts' = IF pc = "apply" THEN Append(attempts, item) ELSE attempts
           /\ answer' = IF pc = "apply" THEN "none" ELSE answer
           /\ IF ~exists(disk, src)
              THEN \* FileNotFoundError: "except Exception" skips the item
                   /\ cur' = cur + 1
                   /\ pc' = "apply"
                   /\ UNCHANGED <<disk, lost, locked>>
              ELSE IF src \in uchg \cup denied
              THEN /\ locked' = (src \in uchg)
                   /\ pc' = "perm"
                   /\ UNCHANGED <<disk, lost, cur>>
              ELSE /\ disk' = rename(disk, src, item.proposed)
                   /\ lost' = lost \cup clobbered(disk, src, item.proposed)
                   /\ cur' = cur + 1
                   /\ pc' = "apply"
                   /\ UNCHANGED locked
    /\ UNCHANGED <<tool, ci, include_noops, queue, uchg, denied, auto_unlock>>
    /\ UNCHANGED planVars
    /\ autos' = IF pc = "apply" THEN 0 ELSE autos
    /\ UNCHANGED applied
    /\ UNCHANGED fnVars
    /\ UNCHANGED menuVars

\* the test of line 443 with a defect: auto-unlock is never used
auto_unlock_ignored(l, a) == FALSE

\* "if locked and auto_unlock"
auto_unlocks(l, a) == l /\ a

\* "except PermissionError" up to the prompt: with auto-unlock on and the flag
\* set, sudo_unlock is called; otherwise the operator is asked
OnPermissionError ==
    /\ tool = "rename"
    /\ pc = "perm"
    /\ pc' = IF auto_unlocks(locked, auto_unlock) THEN "unlock" ELSE "prompt"
    /\ UNCHANGED <<tool, ci, include_noops, disk, queue, cur, uchg, denied, locked,
                   auto_unlock, attempts, answer, lost>>
    /\ UNCHANGED planVars
    /\ UNCHANGED <<applied, autos>>
    /\ UNCHANGED fnVars
    /\ UNCHANGED menuVars

\* the test with a defect: the rename is retried whatever the unlock did
unlock_retries_always(ok, still) == TRUE

\* "if ok and not has_uchg(item.original)"
unlock_retries(ok, still) == ok /\ ~still

\* ok = sudo_unlock(item.original) of the auto-unlock branch: the flag is
\* cleared and the rename is retried, or the command fails (or the flag stays)
\* and the operator is asked
AutoUnlock ==
    /\ tool = "rename"
    /\ pc = "unlock"
    /\ \E ok \in BOOLEAN :
        /\ uchg' = IF ok THEN uchg \ {queue[cur].original} ELSE uchg
        /\ pc' = IF unlock_retries(ok, queue[cur].original \in uchg') THEN "retry"
                 ELSE "prompt"
        /\ autos' = IF unlock_retries(ok, queue[cur].original \in uchg') /\ autos < MaxAutos
                    THEN autos + 1
                    ELSE autos
    /\ UNCHANGED <<tool, ci, include_noops, disk, queue, cur, denied, locked,
                   auto_unlock, attempts, answer, lost>>
    /\ UNCHANGED planVars
    /\ UNCHANGED applied
    /\ UNCHANGED fnVars
    /\ UNCHANGED menuVars

\* what the operator may type at the prompt of a permission failure
PROMPT_INPUTS == {"s", "q", "Q", "u", "U", ""}

\* the if-chain with a defect: "q" is taken for a skip
choice_branch_q_skips(choice, l) ==
    IF choice \in {"s", "S", "q", "Q"} THEN "skip"
    ELSE IF l /\ choice = "u" THEN "unlock"
    ELSE IF l /\ choice = "U" THEN "auto"
    ELSE "retry"

\* the if-chain with a defect: "u" unlocks whether or not the flag was seen
choice_branch_u_always(choice, l) ==
    IF choice \in {"s", "S"} THEN "skip"
    ELSE IF choice \in {"q", "Q"} THEN "abort"
    ELSE IF choice = "u" THEN "unlock"
    ELSE IF l /\ choice = "U" THEN "auto"
    ELSE "retry"

\* the if-chain of lines 461 to 487: the branch an input selects
choice_branch(choice, l) ==
    IF choice \in {"s", "S"} THEN "skip"
    ELSE IF choice \in {"q", "Q"} THEN "abort"
    ELSE IF l /\ choice = "u" THEN "unlock"
    ELSE IF l /\ choice = "U" THEN "auto"
    ELSE "retry"

\* choice = input("> ").strip() and the branch it selects
Prompt ==
    /\ tool = "rename"
    /\ pc = "prompt"
    /\ \E choice \in PROMPT_INPUTS :
        /\ answer' = choice
        /\ IF choice_branch(choice, locked) = "skip"
           THEN /\ cur' = cur + 1
                /\ pc' = "apply"
                /\ UNCHANGED <<uchg, auto_unlock, plan>>
           ELSE IF choice_branch(choice, locked) = "abort"
           THEN \* apply_plan returns; the menu sets last_plan = []
                /\ pc' = "done"
                /\ plan' = <<>>
                /\ UNCHANGED <<cur, uchg, auto_unlock>>
           ELSE IF choice_branch(choice, locked) = "unlock"
           THEN /\ \/ uchg' = uchg \ {queue[cur].original}
                   \/ UNCHANGED uchg
                /\ pc' = "retry"
                /\ UNCHANGED <<cur, auto_unlock, plan>>
           ELSE IF choice_branch(choice, locked) = "auto"
           THEN /\ auto_unlock' = TRUE
                /\ pc' = "retry"
                /\ UNCHANGED <<cur, uchg, plan>>
           ELSE /\ pc' = "retry"
                /\ UNCHANGED <<cur, uchg, auto_unlock, plan>>
    /\ UNCHANGED <<tool, ci, include_noops, disk, queue, denied, locked, attempts, lost>>
    /\ UNCHANGED <<files, idx, sc_left, reserved, claimed, last_resolve>>
    /\ autos' = 0
    /\ UNCHANGED applied
    /\ UNCHANGED fnVars
    /\ UNCHANGED menuVars

\* while the prompt waits the operator repairs the permissions by hand
OperatorFix ==
    /\ tool = "rename"
    /\ pc = "prompt"
    /\ queue[cur].original \in denied
    /\ denied' = denied \ {queue[cur].original}
    /\ UNCHANGED <<tool, ci, include_noops, disk, pc, queue, cur, uchg, locked,
                   auto_unlock, attempts, answer, lost>>
    /\ UNCHANGED planVars
    /\ UNCHANGED <<applied, autos>>
    /\ UNCHANGED fnVars
    /\ UNCHANGED menuVars

\* apply_plan returns after the last item; the menu sets last_plan = []
ApplyReturn ==
    /\ tool = "rename"
    /\ pc = "apply"
    /\ cur > Len(queue)
    /\ pc' = "done"
    /\ plan' = <<>>
    /\ UNCHANGED <<tool, ci, include_noops, disk>>
    /\ UNCHANGED <<files, idx, sc_left, reserved, claimed, last_resolve>>
    /\ UNCHANGED applyVars
    /\ UNCHANGED fnVars
    /\ UNCHANGED menuVars

(***************************************************************************)
(* show_name_normal.py: build_plan_for_show_dir and apply                  *)
(***************************************************************************)
\* resolve_collision(dst): looks at the disk only
show_resolve_collision(dst, d) ==
    IF ~exists(d, dst) THEN [ok |-> TRUE, path |-> dst, probes |-> 0]
    ELSE dup_loop(dst, {}, d, 1)

\* build_plan_for_show_dir starts: sorted(show_dir.rglob("*")), the videos of it
ShowScan ==
    /\ tool = "show"
    /\ pc = "scan"
    /\ files' = sorted({p \in DOMAIN disk : ShowFacts[path_name(p)].video})
    /\ idx' = 1
    /\ plan' = <<>>
    /\ last_resolve' = NoCall
    /\ pc' = "vid"
    /\ UNCHANGED <<tool, ci, include_noops, disk, sc_left, reserved, claimed>>
    /\ UNCHANGED applyVars
    /\ UNCHANGED fnVars
    /\ UNCHANGED menuVars

\* one pass of "for src in sorted(show_dir.rglob('*'))"
ShowPlanStep ==
    /\ tool = "show"
    /\ pc = "vid"
    /\ idx <= Len(files)
    /\ LET src == files[idx]
           parsed == ShowFacts[path_name(src)].target
           res == show_resolve_collision(parsed.path, disk)
       IN  IF ~parsed.ok
           THEN /\ idx' = idx + 1
                /\ last_resolve' = NoCall
                /\ UNCHANGED <<plan, pc>>
           ELSE /\ last_resolve' = Called("disk", parsed.path, res)
                /\ IF res.ok
                   THEN /\ plan' = IF src # res.path
                                   THEN Append(plan, Item(src, res.path, "move"))
                                   ELSE plan
                        /\ idx' = idx + 1
                        /\ UNCHANGED pc
                   ELSE /\ pc' = "fatal"
                        /\ UNCHANGED <<plan, idx>>
    /\ UNCHANGED <<tool, ci, include_noops, disk, files, sc_left, reserved, claimed>>
    /\ UNCHANGED applyVars
    /\ UNCHANGED fnVars
    /\ UNCHANGED menuVars

\* "return plan"
ShowPlanReturn ==
    /\ tool = "show"
    /\ pc = "vid"
    /\ idx > Len(files)
    /\ pc' = "planned"
    /\ UNCHANGED <<tool, ci, include_noops, disk>>
    /\ UNCHANGED planVars
    /\ UNCHANGED applyVars
    /\ UNCHANGED fnVars
    /\ UNCHANGED menuVars

\* command "a" and its prompt: with "YES" apply(plan) starts, with anything
\* else the menu prints "Cancelled apply."
ShowStartApply ==
    /\ tool = "show"
    /\ AtMenu
    /\ applied < MaxApplies
    /\ \E c \in CONFIRM_INPUTS :
        /\ answer' = c
        /\ IF confirms(tool, c)
           THEN /\ queue' = plan
                /\ cur' = 1
                /\ attempts' = <<>>
                /\ applied' = applied + 1
                /\ pc' = "apply"
           ELSE UNCHANGED <<queue, cur, attempts, applied, pc>>
    /\ UNCHANGED <<tool, ci, include_noops, disk, uchg, denied, locked, auto_unlock, lost,
                   autos>>
    /\ UNCHANGED planVars
    /\ UNCHANGED fnVars
    /\ UNCHANGED menuVars

\* one pass of apply's loop: mkdir of the season folder, then
\* safe_move(m.src, m.dst); a move that raises is reported and passed over
ShowApplyMove ==
    /\ tool = "show"
    /\ pc = "apply"
    /\ cur <= Len(queue)
    /\ LET m == queue[cur]
       IN  /\ attempts' = Append(attempts, m)
           /\ IF exists(disk, m.original)
              THEN /\ disk' = rename(disk, m.original, m.proposed)
                   /\ lost' = lost \cup clobbered(disk, m.original, m.proposed)
              ELSE UNCHANGED <<disk, lost>>
    /\ cur' = cur + 1
    /\ UNCHANGED <<tool, ci, include_noops, pc, queue, uchg, denied, locked, auto_unlock,
                   answer>>
    /\ UNCHANGED planVars
    /\ UNCHANGED <<applied, autos>>
    /\ UNCHANGED fnVars
    /\ UNCHANGED menuVars

\* apply returns; the plan stays in the menu loop's variable
ShowApplyReturn ==
    /\ tool = "show"
    /\ pc = "apply"
    /\ cur > Len(queue)
    /\ pc' = "done"
    /\ UNCHANGED <<tool, ci, include_noops, disk>>
    /\ UNCHANGED planVars
    /\ UNCHANGED applyVars
    /\ UNCHANGED fnVars
    /\ UNCHANGED menuVars

\* build_plan_season_folder after its prompts: sorted(season_dir.rglob("*")),
\* the videos of it
SeasonScan ==
    /\ tool = "show_season"
    /\ pc = "scan"
    /\ files' = sorted({p \in DOMAIN disk : ShowFacts[path_name(p)].video})
    /\ idx' = 1
    /\ plan' = <<>>
    /\ last_resolve' = NoCall
    /\ pc' = "vid"
    /\ UNCHANGED <<tool, ci, include_noops, disk, sc_left, reserved, claimed>>
    /\ UNCHANGED applyVars
    /\ UNCHANGED fnVars
    /\ UNCHANGED menuVars

\* one pass of "for src in sorted(season_dir.rglob('*'))"
SeasonPlanStep ==
    /\ tool = "show_season"
    /\ pc = "vid"
    /\ idx <= Len(files)
    /\ IF ~SeasonFacts[path_name(files[idx])].ok
       THEN /\ idx' = idx + 1
            /\ last_resolve' = NoCall
            /\ UNCHANGED <<plan, pc>>
       ELSE \E res \in {show_resolve_collision(SeasonFacts[path_name(files[idx])].path, disk)} :
              /\ last_resolve' = Called("disk", SeasonFacts[path_name(files[idx])].path, res)
              /\ IF res.ok
                 THEN /\ plan' = IF files[idx] # res.path
                                 THEN Append(plan, Item(files[idx], res.path, "move"))
                                 ELSE plan
                      /\ idx' = idx + 1
                      /\ UNCHANGED pc
                 ELSE /\ pc' = "fatal"
                      /\ UNCHANGED <<plan, idx>>
    /\ UNCHANGED <<tool, ci, include_noops, disk, files, sc_left, reserved, claimed>>
    /\ UNCHANGED applyVars
    /\ UNCHANGED fnVars
    /\ UNCHANGED menuVars

\* "return plan, [...]"
SeasonPlanReturn ==
    /\ tool = "show_season"
    /\ pc = "vid"
    /\ idx > Len(files)
    /\ pc' = "planned"
    /\ UNCHANGED <<tool, ci, include_noops, disk>>
    /\ UNCHANGED planVars
    /\ UNCHANGED applyVars
    /\ UNCHANGED fnVars
    /\ UNCHANGED menuVars

(***************************************************************************)
(* sort_movies.py: build_sort_plan, the resolvers and apply_sort_plan. The *)
(* scan of the menu ends in build_sort_plan's first statement, so the      *)
(* functions behind it are run on their own: the resolvers on the disks of *)
(* SortUniverse (tool "sort_fn"), apply_sort_plan on the plans of          *)
(* SortPlans (tool "sort_apply"), and the statements of build_sort_plan    *)
(* behind the first on the trees of SortPlanUniverse (tool "sort_plan").   *)
(***************************************************************************)
is_prefix(p, q) == Len(p) < Len(q) /\ SubSeq(q, 1, Len(p)) = p

\* Path.is_dir(): made by mkdir, or the parent of something
is_dir(d, p) == (p \in DOMAIN d /\ d[p] = DIR) \/ \E q \in DOMAIN d : is_prefix(p, q)

\* Path.exists() where directories count
path_exists(d, p) == exists(d, p) \/ is_dir(d, p)

validate_paths_skipped(d, src, dst) == {}

\* validate_paths(source, dest): the issues it returns. resolve() leaves the
\* model's paths as they are, and is_relative_to holds for the path itself
validate_paths(d, src, dst) ==
    (IF ~path_exists(d, src) \/ ~is_dir(d, src) THEN {"SOURCE does not exist"} ELSE {})
    \cup (IF ~path_exists(d, dst) \/ ~is_dir(d, dst) THEN {"DEST does not exist"} ELSE {})
    \cup (IF dst = src THEN {"DEST same as SOURCE"} ELSE {})
    \cup (IF dst = src \/ is_prefix(src, dst) THEN {"DEST inside SOURCE"} ELSE {})

\* "Fix and try again. (enter)": back to the menu
SortIssuesReturn ==
    /\ tool \in {"sort", "sort_apply"}
    /\ pc = "issues"
    /\ pc' = IF tool = "sort" THEN "scan" ELSE "planned"
    /\ UNCHANGED <<tool, ci, include_noops, disk>>
    /\ UNCHANGED planVars
    /\ UNCHANGED applyVars
    /\ UNCHANGED fnVars
    /\ UNCHANGED menuVars

\* the loop "for i in range(1, 1000)" of resolve_collision_path from i on
RECURSIVE dup_path_loop(_, _, _)
dup_path_loop(target, d, i) ==
    IF i > MaxDup THEN [ok |-> FALSE, path |-> target, probes |-> i - 1]
    ELSE IF ~path_exists(d, dup_candidate(target, i))
    THEN [ok |-> TRUE, path |-> dup_candidate(target, i), probes |-> i]
    ELSE dup_path_loop(target, d, i + 1)

resolve_collision_path(target, d) ==
    IF ~path_exists(d, target) THEN [ok |-> TRUE, path |-> target, probes |-> 0]
    ELSE dup_path_loop(target, d, 1)

\* Path(str(target) + f" - dup{i}")
dup_dir_candidate(target, i) ==
    with_name(target, path_name(target) \o <<" ", "-", " ", "d", "u", "p">> \o int_str(i))

RECURSIVE dup_dir_loop(_, _, _)
dup_dir_loop(target, d, i) ==
    IF i > MaxDup THEN [ok |-> FALSE, path |-> target, probes |-> i - 1]
    ELSE IF ~path_exists(d, dup_dir_candidate(target, i))
    THEN [ok |-> TRUE, path |-> dup_dir_candidate(target, i), probes |-> i]
    ELSE dup_dir_loop(target, d, i + 1)

resolve_collision_dir(target, d) ==
    IF ~path_exists(d, target) THEN [ok |-> TRUE, path |-> target, probes |-> 0]
    ELSE dup_dir_loop(target, d, 1)

\* IGNORE_DIRS, lowered as walk_files compares them
IGNORE_DIRS ==
    {str_lower(BONUS_DIR_NAME), <<".", "g", "i", "t">>,
     <<"_", "_", "p", "y", "c", "a", "c", "h", "e", "_", "_">>,
     <<"r", "e", "p", "o", "r", "t", "s">>}

\* TV_EP_RE.search(name): \bS\d{1,2}E\d{1,2}\b, whatever the case
is_tv_episode_name(name) ==
    \E i \in 1..Len(name), a \in 1..2, b \in 1..2 :
        /\ i + a + 1 + b <= Len(name)
        /\ ch_lower(name[i]) = "s"
        /\ (i = 1 \/ ~isword(name[i - 1]))
        /\ all_digits(SubSeq(name, i + 1, i + a))
        /\ ch_lower(name[i + a + 1]) = "e"
        /\ all_digits(SubSeq(name, i + a + 2, i + a + 1 + b))
        /\ (i + a + 1 + b = Len(name) \/ ~isword(name[i + a + 2 + b]))

\* bucket_letter(title_base): decided by the first letter or digit
bucket_letter(title_base) ==
    IF \A i \in 1..Len(title_base) : ~isalnum(title_base[i]) THEN "_"
    ELSE IF isdigit(title_base[SetMin({i \in 1..Len(title_base) : isalnum(title_base[i])})])
    THEN "#"
    ELSE ch_upper(title_base[SetMin({i \in 1..Len(title_base) : isalnum(title_base[i])})])

\* create_new_base(file): file.stem
create_new_base(name) == stem(name)

\* what the planner derives from each name, computed once
SortFacts ==
    [n \in SortNames |->
        [video   |-> str_lower(suffix(n)) \in VALID_VIDEO_EXTENSIONS,
         tv      |-> is_tv_episode_name(n),
         sidecar |-> suffixes_meet(n, SIDECAR_EXTENSIONS),
         base    |-> create_new_base(n),
         letter  |-> <<bucket_letter(create_new_base(n))>>]]

\* the regular files of folder.iterdir()
dir_files(d, folder) == {p \in DOMAIN d : d[p] # DIR /\ path_parent(p) = folder}

\* the directories of folder.iterdir()
dir_folders(d, folder) ==
    {SubSeq(q, 1, Len(folder) + 1) :
        q \in {r \in DOMAIN d : is_prefix(folder, r)
                                /\ (d[r] = DIR \/ Len(r) > Len(folder) + 1)}}

\* iter_video_files(root): walk_files prunes the folders of IGNORE_DIRS
iter_video_files(d, root) ==
    sorted({p \in DOMAIN d :
              /\ d[p] # DIR
              /\ is_prefix(root, p)
              /\ \A i \in (Len(root) + 1)..(Len(p) - 1) : str_lower(p[i]) \notin IGNORE_DIRS
              /\ SortFacts[path_name(p)].video})

\* is_single_movie_folder(folder)
is_single_movie_folder(d, folder) ==
    /\ is_dir(d, folder)
    /\ Cardinality({p \in dir_files(d, folder) :
                      SortFacts[path_name(p)].video /\ ~SortFacts[path_name(p)].tv}) = 1
    /\ \A p \in dir_files(d, folder) :
          \/ SortFacts[path_name(p)].video /\ ~SortFacts[path_name(p)].tv
          \/ SortFacts[path_name(p)].sidecar
    /\ \A q \in dir_folders(d, folder) : str_lower(path_name(q)) = str_lower(BONUS_DIR_NAME)

\* find_sidecars(video_file) of sort_movies.py, as a set
sort_find_sidecars(d, video_file) ==
    {p \in dir_files(d, path_parent(video_file)) :
        /\ ~is_in_bonus_features(p)
        /\ startswith(path_name(p), stem(path_name(video_file)))
        /\ SortFacts[path_name(p)].sidecar}

\* the orders in which parent.iterdir() may yield a set of entries
iterdir_orders(S) ==
    {q \in [1..Cardinality(S) -> S] : \A i, j \in 1..Cardinality(S) : q[i] = q[j] => i = j}

\* dest_root / "movies" / letter / base
movie_dir_of(vid) ==
    <<DST, MOVIES, SortFacts[path_name(vid)].letter, SortFacts[path_name(vid)].base>>

\* the loop "for sc in find_sidecars(vid)": the entries it appends for scs
RECURSIVE sidecar_moves(_, _, _)
sidecar_moves(d, vid, scs) ==
    IF scs = <<>> THEN <<>>
    ELSE <<Item(Head(scs),
                resolve_collision_path(
                    Append(movie_dir_of(vid),
                           SortFacts[path_name(vid)].base
                           \o DropFirst(path_name(Head(scs)), Len(stem(path_name(vid))))),
                    d).path,
                "move_sidecar")>>
         \o sidecar_moves(d, vid, Tail(scs))

\* the entries of a loose video: mkdir, move_video, then its sidecars
loose_moves(d, vid, scs) ==
    <<Item(movie_dir_of(vid), movie_dir_of(vid), "mkdir"),
      Item(vid,
           resolve_collision_path(
               Append(movie_dir_of(vid),
                      SortFacts[path_name(vid)].base \o str_lower(suffix(path_name(vid)))),
               d).path,
           "move_video")>>
    \o sidecar_moves(d, vid, scs)

\* a resolve_collision_path call of the loose branch runs out of names
loose_raises(d, vid, scs) ==
    \/ ~resolve_collision_path(
            Append(movie_dir_of(vid),
                   SortFacts[path_name(vid)].base \o str_lower(suffix(path_name(vid)))),
            d).ok
    \/ \E i \in DOMAIN scs :
          ~resolve_collision_path(
              Append(movie_dir_of(vid),
                     SortFacts[path_name(vid)].base
                     \o DropFirst(path_name(scs[i]), Len(stem(path_name(vid))))),
              d).ok

\* the entries of a video in a single-movie folder; none when the folder is
\* in seen_movie_folders
folder_moves(d, vid, sofar) ==
    IF \E i \in DOMAIN sofar : sofar[i].action = "move_folder"
                               /\ sofar[i].original = path_parent(vid)
    THEN <<>>
    ELSE <<Item(path_parent(vid), resolve_collision_dir(movie_dir_of(vid), d).path,
                "move_folder")>>

\* "De-dupe mkdir entries": the loop over plan with the set seen
RECURSIVE dedupe_mkdir(_, _)
dedupe_mkdir(p, seen) ==
    IF p = <<>> THEN <<>>
    ELSE IF Head(p).action = "mkdir" /\ Head(p).proposed \in seen
    THEN dedupe_mkdir(Tail(p), seen)
    ELSE <<Head(p)>>
         \o dedupe_mkdir(Tail(p), IF Head(p).action = "mkdir"
                                  THEN seen \cup {Head(p).proposed} ELSE seen)

\* build_sort_plan from its second statement on, entered with
\* videos = iter_video_files(source_root), the call the function takes
SortPlanScan ==
    /\ tool = "sort_plan"
    /\ pc = "scan"
    /\ files' = iter_video_files(disk, <<SRC>>)
    /\ idx' = 1
    /\ plan' = <<>>
    /\ pc' = "vid"
    /\ UNCHANGED <<tool, ci, include_noops, disk, sc_left, reserved, claimed, last_resolve>>
    /\ UNCHANGED applyVars
    /\ UNCHANGED fnVars
    /\ UNCHANGED menuVars

\* one pass of "for vid in videos"; a resolver that runs out of names raises
SortPlanStep ==
    /\ tool = "sort_plan"
    /\ pc = "vid"
    /\ idx <= Len(files)
    /\ IF is_single_movie_folder(disk, path_parent(files[idx]))
       THEN IF resolve_collision_dir(movie_dir_of(files[idx]), disk).ok
            THEN /\ plan' = plan \o folder_moves(disk, files[idx], plan)
                 /\ idx' = idx + 1
                 /\ UNCHANGED pc
            ELSE /\ pc' = "fatal"
                 /\ UNCHANGED <<plan, idx>>
       ELSE \E scs \in iterdir_orders(sort_find_sidecars(disk, files[idx])) :
                IF loose_raises(disk, files[idx], scs)
                THEN /\ pc' = "fatal"
                     /\ UNCHANGED <<plan, idx>>
                ELSE /\ plan' = plan \o loose_moves(disk, files[idx], scs)
                     /\ idx' = idx + 1
                     /\ UNCHANGED pc
    /\ UNCHANGED <<tool, ci, include_noops, disk, files, sc_left, reserved, claimed,
                   last_resolve>>
    /\ UNCHANGED applyVars
    /\ UNCHANGED fnVars
    /\ UNCHANGED menuVars

\* the de-duplication of the mkdir entries and "return deduped"
SortPlanReturn ==
    /\ tool = "sort_plan"
    /\ pc = "vid"
    /\ idx > Len(files)
    /\ plan' = dedupe_mkdir(plan, {})
    /\ pc' = "planned"
    /\ UNCHANGED <<tool, ci, include_noops, disk, files, idx, sc_left, reserved, claimed,
                   last_resolve>>
    /\ UNCHANGED applyVars
    /\ UNCHANGED fnVars
    /\ UNCHANGED menuVars

\* menu choice 3: build_sort_plan calls iter_video_files(source_root,
\* recursive=True); iter_video_files takes no such argument, the TypeError
\* ends the program
SortScan ==
    /\ tool = "sort"
    /\ pc = "scan"
    /\ pc' = IF validate_paths(disk, source, dest) # {} THEN "issues" ELSE "crash"
    /\ UNCHANGED <<tool, ci, include_noops, disk>>
    /\ UNCHANGED planVars
    /\ UNCHANGED applyVars
    /\ UNCHANGED fnVars
    /\ UNCHANGED menuVars

\* a call of resolve_collision_path or resolve_collision_dir
SortResolve ==
    /\ tool = "sort_fn"
    /\ pc = "call"
    /\ \/ \E target \in {Append(D_MOVIE_DIR, M_MKV), Append(D_MOVIE_DIR, M_SRT)} :
            last_resolve' = Called("path", target, resolve_collision_path(target, disk))
       \/ \E target \in {D_MOVIE_DIR, D_FOLDER} :
            last_resolve' = Called("dir", target, resolve_collision_dir(target, disk))
    /\ UNCHANGED <<tool, ci, include_noops, disk, pc, files, idx, sc_left, reserved, claimed, plan>>
    /\ UNCHANGED applyVars
    /\ UNCHANGED fnVars
    /\ UNCHANGED menuVars

\* apply_sort_plan with a defect: the entries are run in the order of the plan
sort_in_plan_order(p) == p

\* the order in which apply_sort_plan's three loops reach the entries
sort_apply_order(p) ==
    select(p, "mkdir") \o select(p, "move_folder")
    \o select(p, "move_sidecar") \o select(p, "move_video")

\* os.rename of a directory: everything below src moves below dst
rename_dir(d, src, dst) ==
    [q \in {r \in DOMAIN d : ~is_prefix(src, r) /\ r # src}
           \cup {dst \o DropFirst(r, Len(src)) : r \in {x \in DOMAIN d : is_prefix(src, x)}} |->
        IF is_prefix(dst, q) /\ (src \o DropFirst(q, Len(dst))) \in DOMAIN d
        THEN d[src \o DropFirst(q, Len(dst))]
        ELSE d[q]]

\* choice 5 with a plan and path issues: the issues are printed
SortApplyIssues ==
    /\ tool = "sort_apply"
    /\ AtMenu
    /\ plan # <<>>
    /\ validate_paths(disk, source, dest) # {}
    /\ pc' = "issues"
    /\ UNCHANGED <<tool, ci, include_noops, disk>>
    /\ UNCHANGED planVars
    /\ UNCHANGED applyVars
    /\ UNCHANGED fnVars
    /\ UNCHANGED menuVars

\* choice 5 and its prompt: with "YES" apply_sort_plan(last_plan) starts, with
\* anything else the menu prints "Cancelled." The permissions of the files
\* are met in the apply for the first time, so they are chosen here.
SortStartApply ==
    /\ tool = "sort_apply"
    /\ AtMenu
    /\ plan # <<>>
    /\ applied < MaxApplies
    /\ validate_paths(disk, source, dest) = {}
    /\ \E c \in CONFIRM_INPUTS :
        /\ answer' = c
        /\ IF confirms(tool, c)
           THEN /\ queue' = sort_apply_order(plan)
                /\ \E x \in SUBSET lockable(sort_apply_order(plan)) :
                    /\ Cardinality(x) <= MaxLocked
                    /\ denied' = x
                /\ cur' = 1
                /\ attempts' = <<>>
                /\ applied' = applied + 1
                /\ pc' = "apply"
           ELSE UNCHANGED <<queue, denied, cur, attempts, applied, pc>>
    /\ UNCHANGED <<tool, ci, include_noops, disk, uchg, locked, auto_unlock, lost,
                   autos>>
    /\ UNCHANGED planVars
    /\ UNCHANGED fnVars
    /\ UNCHANGED menuVars

\* what one entry does to the disk; raised tells whether mkdir or rename
\* raise ("perm": PermissionError, "other": any other error), which nothing in
\* apply_sort_plan catches
sort_step(d, item) ==
    IF item.action = "mkdir"
    THEN IF exists(d, item.proposed) /\ ~is_dir(d, item.proposed)
         THEN [raised |-> "other", disk |-> d, lost |-> {}]
         ELSE [raised |-> "none",
               disk |-> IF is_dir(d, item.proposed) THEN d
                        ELSE [q \in DOMAIN d \cup {item.proposed} |->
                                 IF q = item.proposed THEN DIR ELSE d[q]],
               lost |-> {}]
    ELSE IF item.action = "move_folder"
    THEN IF ~is_dir(d, item.original) \/ path_exists(d, item.proposed)
         THEN [raised |-> "other", disk |-> d, lost |-> {}]
         ELSE [raised |-> "none", disk |-> rename_dir(d, item.original, item.proposed),
               lost |-> {}]
    ELSE IF ~exists(d, item.original) \/ is_dir(d, item.original) \/ is_dir(d, item.proposed)
    THEN [raised |-> "other", disk |-> d, lost |-> {}]
    ELSE IF item.original \in denied
    THEN [raised |-> "perm", disk |-> d, lost |-> {}]
    ELSE [raised |-> "none", disk |-> rename(d, item.original, item.proposed),
          lost |-> clobbered(d, item.original, item.proposed)]

\* one pass of one of apply_sort_plan's loops
SortApplyStep ==
    /\ tool = "sort_apply"
    /\ pc = "apply"
    /\ cur <= Len(queue)
    /\ attempts' = Append(attempts, queue[cur])
    /\ disk' = sort_step(disk, queue[cur]).disk
    /\ lost' = lost \cup sort_step(disk, queue[cur]).lost
    /\ IF sort_step(disk, queue[cur]).raised # "none"
       THEN pc' = "crash" /\ UNCHANGED cur
       ELSE pc' = "apply" /\ cur' = cur + 1
    /\ UNCHANGED <<tool, ci, include_noops, queue, uchg, denied, locked, auto_unlock,
                   answer>>
    /\ UNCHANGED planVars
    /\ UNCHANGED <<applied, autos>>
    /\ UNCHANGED fnVars
    /\ UNCHANGED menuVars

\* apply_sort_plan returns; the menu sets last_plan = []
SortApplyReturn ==
    /\ tool = "sort_apply"
    /\ pc = "apply"
    /\ cur > Len(queue)
    /\ pc' = "done"
    /\ plan' = <<>>
    /\ UNCHANGED <<tool, ci, include_noops, disk>>
    /\ UNCHANGED <<files, idx, sc_left, reserved, claimed, last_resolve>>
    /\ UNCHANGED applyVars
    /\ UNCHANGED fnVars
    /\ UNCHANGED menuVars

Next ==
    \/ Scan
    \/ PlanVideo
    \/ PlanSidecar
    \/ PlanReturn
    \/ NothingToApply
    \/ StartApply
    \/ ApplyRename
    \/ OnPermissionError
    \/ AutoUnlock
    \/ Prompt
    \/ OperatorFix
    \/ ApplyReturn
    \/ ShowScan
    \/ ShowPlanStep
    \/ ShowPlanReturn
    \/ ShowStartApply
    \/ ShowApplyMove
    \/ ShowApplyReturn
    \/ SeasonScan
    \/ SeasonPlanStep
    \/ SeasonPlanReturn
    \/ SortPlanScan
    \/ SortPlanStep
    \/ SortPlanReturn
    \/ SortScan
    \/ SortResolve
    \/ SortIssuesReturn
    \/ SortApplyIssues
    \/ SortStartApply
    \/ SortApplyStep
    \/ SortApplyReturn

Spec == Init /\ [][Next]_vars

(***************************************************************************)
(* Properties.                                                             *)
(***************************************************************************)
\* the planning loop of the name normalizer or the show renamer is running
Planning == pc \in {"vid", "sc"}

\* a resolver has just been called and the disk is still the one it saw
Resolved == last_resolve.called /\ pc \in {"vid", "sc", "fatal", "planned", "call"}

\* what a resolver counts as taken: on disk, or (name_normalizor) reserved
taken(by, p, rsv) ==
    IF by = "reserved" THEN exists(disk, p) \/ key_path(p) \in rsv
    ELSE IF by = "disk" THEN exists(disk, p)
    ELSE path_exists(disk, p)

\* the N-th candidate of a resolver
candidate(by, target, n) ==
    IF by = "dir" THEN dup_dir_candidate(target, n) ELSE dup_candidate(target, n)

C3_Returned ==
    (tool = "rename" /\ Resolved /\ last_resolve.ok) =>
        /\ ~exists(disk, last_resolve.path)
        /\ key_path(last_resolve.path) \notin last_resolve.before
        /\ key_path(last_resolve.path) \in reserved

C3_Kept == [][(tool = "rename" /\ Planning) => reserved \subseteq reserved']_vars

\* C3: a path returned by resolve_collision_reserved was not on disk and its
\* key was not reserved when the call was made, its key is reserved after the
\* call, and no step of a planning pass takes a key out of the reservation set.
C3_ResolverSound == []C3_Returned /\ C3_Kept

\* a resolver call of the name normalizer that had to probe and returned a
\* "- dupN" path
C3_Witness ==
    tool = "rename" /\ Planning /\ last_resolve.called /\ last_resolve.ok
    /\ last_resolve.probes >= 1

\* the reference of C4: the desired path when it is free, else the candidate
\* with the smallest free N
reference(target, rsv) ==
    IF ~taken("reserved", target, rsv) THEN target
    ELSE dup_candidate(target,
            SetMin({n \in 1..MaxDup : ~taken("reserved", dup_candidate(target, n), rsv)}))

\* C4: whenever resolve_collision_reserved returns, the path is the desired
\* path if that is neither on disk nor reserved, and otherwise the
\* "<stem> - dup<N><ext>" with the smallest N that is neither on disk nor
\* reserved.
C4_ResolverIsReference ==
    (tool = "rename" /\ Resolved /\ last_resolve.ok) =>
        last_resolve.path = reference(last_resolve.target, last_resolve.before)

\* two sources wanted the same free path: the second call finds it reserved,
\* not on disk, and returns dup1
C4_Witness ==
    /\ tool = "rename" /\ Planning /\ last_resolve.called /\ last_resolve.ok
    /\ ~exists(disk, last_resolve.target)
    /\ key_path(last_resolve.target) \in last_resolve.before
    /\ \E j \in 1..Len(plan) - 1 : plan[j].proposed = last_resolve.target
    /\ last_resolve.path = dup_candidate(last_resolve.target, 1)

C5_Call ==
    Resolved =>
        /\ last_resolve.probes <= MaxDup
        /\ last_resolve.ok
             => ~taken(last_resolve.by, last_resolve.path, last_resolve.before)
        /\ ~last_resolve.ok
             => /\ taken(last_resolve.by, last_resolve.target, last_resolve.before)
                /\ \A n \in 1..MaxDup :
                      taken(last_resolve.by,
                            candidate(last_resolve.by, last_resolve.target, n),
                            last_resolve.before)
                /\ tool \in {"rename", "show"} => pc = "fatal"
        /\ (pc = "fatal") => ~last_resolve.ok

C5_Ends == [][pc # "fatal"]_vars

\* C5: a resolver fails exactly when the desired path and every candidate up
\* to the probe limit are taken; it never probes past the limit and never
\* returns a taken path; the failure ends the planning pass, after which no
\* step of the program follows and no plan is returned.
C5_ExhaustionIsFatal == []C5_Call /\ C5_Ends

\* the name normalizer's resolver ran out of candidates
C5_Witness ==
    tool = "rename" /\ pc = "fatal" /\ last_resolve.called /\ ~last_resolve.ok
    /\ last_resolve.probes = MaxDup
RENAMES == {"rename_video", "rename_sidecar"}

SKIPS == {"collision_skip", "collision_skip_sidecar"}

\* the actions of a plan that move a file
MOVES == RENAMES \cup {"move", "move_video", "move_sidecar", "move_folder"}

\* the executor of the name normalizer is inside apply_plan
Applying == pc \in {"apply", "retry", "perm", "unlock", "prompt"}

\* C6 as stated: a key reserved for one source (by a rename, a no-op or a
\* collision-skip) is never reserved again for another source of the same
\* build_rename_plan pass.
C6_OneSourcePerKey ==
    tool = "rename" =>
        \A i, j \in DOMAIN claimed :
            (i < j /\ claimed[i].key = claimed[j].key)
                => claimed[i].source = claimed[j].source

\* C6: within one build_rename_plan pass no rename action is planned onto a
\* key that was reserved earlier in the pass, whatever source and branch
\* reserved it; a reserved key is reserved again only by a no-op or a
\* collision-skip, which plan no move.
C6_RenameTakesFreshKey ==
    tool = "rename" =>
        \A i, j \in DOMAIN claimed :
            (i < j /\ claimed[j].action \in RENAMES) => claimed[i].key # claimed[j].key

\* a rename was planned for a source whose desired key an earlier source of
\* the pass holds, and the pass also reserved one key for two sources
C6_Witness ==
    /\ tool = "rename" /\ Planning /\ last_resolve.called /\ last_resolve.ok
    /\ claimed # <<>>
    /\ claimed[Len(claimed)].action \in RENAMES
    /\ \E i \in 1..Len(claimed) - 1 : claimed[i].key = key_path(last_resolve.target)
    /\ \E i, j \in DOMAIN claimed :
          i < j /\ claimed[i].key = claimed[j].key /\ claimed[i].source # claimed[j].source

\* a file the name normalizer finds in canonical form: its derived name is
\* its own, or differs from it by case only on a case-insensitive volume
\* (the desired path then exists and is the same file)
canonical(f) ==
    \/ RenameFacts[path_name(f)].proposed = path_name(f)
    \/ ci /\ str_lower(RenameFacts[path_name(f)].proposed) = str_lower(path_name(f))

\* C7: a file in canonical form is the source of no rename action of the
\* plan, the key of its destination is reserved when the pass ends, and the
\* apply leaves the file at its path.
C7_CanonicalUntouched ==
    tool = "rename" =>
        \A i \in DOMAIN files :
            canonical(files[i]) =>
                /\ (pc = "planned" \/ Applying)
                     => \A j \in DOMAIN plan :
                           plan[j].original = files[i] => plan[j].action \notin RENAMES
                /\ pc = "planned"
                     => key_path(with_name(files[i], RenameFacts[path_name(files[i])].proposed))
                           \in reserved
                /\ (Applying \/ pc = "done")
                     => files[i] \in DOMAIN disk /\ disk[files[i]] = files[i]

\* the desired target of a scanned file is held by another file
occupied(f) ==
    IF tool = "rename"
    THEN /\ RenameFacts[path_name(f)].proposed # path_name(f)
         /\ exists(disk, with_name(f, RenameFacts[path_name(f)].proposed))
         /\ ~is_same_file(disk, f, with_name(f, RenameFacts[path_name(f)].proposed))
    ELSE /\ ShowFacts[path_name(f)].target.ok
         /\ exists(disk, ShowFacts[path_name(f)].target.path)
         /\ ~is_same_file(disk, f, ShowFacts[path_name(f)].target.path)

\* C8: in the plan a scan returns, every file whose desired target is held by
\* another file has a collision-skip entry and no entry that moves it.
C8_OccupiedIsSkipped ==
    (pc = "planned" /\ tool \in {"rename", "show"}) =>
        \A i \in DOMAIN files :
            occupied(files[i]) =>
                /\ \E j \in DOMAIN plan :
                      plan[j].original = files[i] /\ plan[j].action \in SKIPS
                /\ \A j \in DOMAIN plan :
                      plan[j].original = files[i] => plan[j].action \notin MOVES

\* C9: the key of every collision-skip, of a video or of a sidecar, is in
\* the reservation set, with and without no-op entries in the plan, and no
\* later rename of the pass is planned onto it.
C9_SkipReserves ==
    tool = "rename" =>
        \A j \in DOMAIN claimed :
            claimed[j].action \in SKIPS =>
                /\ claimed[j].key \in reserved
                /\ \A i \in DOMAIN claimed :
                      (j < i /\ claimed[i].action \in RENAMES)
                          => claimed[i].key # claimed[j].key

\* without no-op entries in the plan: a collision-skip, then a rename later
\* in the same pass
C9_Witness ==
    /\ tool = "rename" /\ ~include_noops
    /\ \E j, i \in DOMAIN claimed :
          j < i /\ claimed[j].action \in SKIPS /\ claimed[i].action \in RENAMES

\* the place of an action in the order of C10
rank(action) ==
    IF action = "mkdir" THEN 0
    ELSE IF action = "move_folder" THEN 1
    ELSE IF action \in {"move_sidecar", "rename_sidecar"} THEN 2
    ELSE 3

C1_NoOverwrite == tool \in {"rename", "show", "sort"} => lost = {}

\* C2: any two entries of a returned plan that move a file have destinations
\* that differ after case-folding.
C2_DistinctDestinations ==
    (pc = "planned" /\ tool \in {"rename", "show", "sort"}) =>
        \A i, j \in DOMAIN plan :
            (i < j /\ plan[i].action \in MOVES /\ plan[j].action \in MOVES)
                => key_path(plan[i].proposed) # key_path(plan[j].proposed)

\* the move of the current item is about to fail with a permission error
perm_fails ==
    /\ cur <= Len(queue)
    /\ \/ /\ tool = "rename"
          /\ pc \in {"apply", "retry"}
          /\ exists(disk, queue[cur].original)
          /\ queue[cur].original \in uchg \cup denied
       \/ /\ tool = "sort_apply"
          /\ pc = "apply"
          /\ sort_step(disk, queue[cur]).raised = "perm"

\* one step of an executor, as C11 allows it
C11_Step ==
    /\ (perm_fails /\ (attempts' # attempts \/ pc = "retry"))
          => /\ cur' = cur /\ disk' = disk
             /\ pc' \in {"perm", "unlock", "prompt", "retry"}
    /\ pc \in {"perm", "unlock"}
          => /\ cur' = cur /\ disk' = disk
             /\ pc' \in {"perm", "unlock", "prompt", "retry"}
    /\ (pc = "prompt" /\ denied' = denied)
          => /\ disk' = disk
             /\ IF answer' \in {"s", "S"} THEN cur' = cur + 1 /\ pc' = "apply"
                ELSE IF answer' \in {"q", "Q"} THEN pc' = "done"
                ELSE cur' = cur /\ pc' = "retry"
    /\ (pc = "retry" /\ ~perm_fails)
          => /\ cur' = cur + 1 /\ pc' = "apply"
             /\ ~exists(disk', queue[cur].original)
    /\ (uchg' # uchg /\ pc # "planned")
          => /\ pc \in {"unlock", "prompt"}
             /\ locked
             /\ uchg' = uchg \ {queue[cur].original}
    /\ auto_unlock' # auto_unlock => (pc = "prompt" /\ locked) \/ pc = "planned"

\* C11: a move that fails with a permission error keeps the executor on its
\* action: the next action is reached only after the move has succeeded or
\* the operator has typed skip, the apply ends early only when the operator
\* types abort, and the unlock operation runs only for a file that was found
\* flagged immutable; for apply_plan and for apply_sort_plan.
C11_PermissionLoop == [][C11_Step]_vars

\* C12 as stated: with auto-unlock on, a permission failure on a flagged file
\* never leads to the prompt.
C12_NeverPrompts ==
    [][(tool = "rename" /\ auto_unlock /\ locked /\ pc \in {"perm", "unlock"})
          => pc' # "prompt"]_vars

\* one step of apply_plan with auto-unlock on
C12_Step ==
    /\ (pc = "perm" /\ locked /\ auto_unlock) => (pc' = "unlock" /\ answer' = answer)
    /\ pc = "unlock"
          => \/ /\ pc' = "retry"
                /\ queue[cur].original \notin uchg'
                /\ answer' = answer
             \/ /\ pc' = "prompt"
                /\ queue[cur].original \in uchg'
    /\ (auto_unlock /\ pc # "planned") => auto_unlock'

\* C12: once auto-unlock is on it stays on for the rest of the apply, and every
\* later permission failure on a flagged file, of the current item or of a
\* following one, runs the unlock without asking first: the rename is retried
\* when the flag is gone, and the operator is asked only when the unlock failed
\* and the flag is still there.
C12_AutoUnlock == [][tool = "rename" => C12_Step]_vars

\* a following item was unlocked and is retried, and nothing was typed for it
C12_Witness ==
    /\ tool = "rename"
    /\ pc = "retry"
    /\ auto_unlock
    /\ answer = "none"
    /\ cur > 1
    /\ queue[cur].original \notin uchg

\* the move of the current item is about to fail with an error that is not a
\* permission error: the source is gone, or the directories are in the way
other_fails ==
    /\ cur <= Len(queue)
    /\ \/ /\ tool = "rename"
          /\ pc \in {"apply", "retry"}
          /\ ~exists(disk, queue[cur].original)
       \/ /\ tool = "show"
          /\ pc = "apply"
          /\ ~exists(disk, queue[cur].original)
       \/ /\ tool = "sort_apply"
          /\ pc = "apply"
          /\ sort_step(disk, queue[cur]).raised = "other"

\* C13: an action that fails with an error other than a permission failure is
\* passed over and nothing else: the executor goes on to the next action of
\* the plan with the disk as it was; for apply_plan, apply_sort_plan and apply.
C13_SkipsOnlyThatAction ==
    [][other_fails => (cur' = cur + 1 /\ pc' = "apply" /\ disk' = disk)]_vars

\* the operator types the abort choice at the prompt of apply_plan
aborts == tool = "rename" /\ pc = "prompt" /\ denied' = denied /\ answer' \in {"q", "Q"}

\* one step of apply_plan, as C14 allows it
C14_Step ==
    /\ aborts
          => /\ pc' = "done"
             /\ disk' = disk
             /\ attempts' = attempts
             /\ cur' = cur
             /\ queue[cur].original \in DOMAIN disk'
    /\ (tool = "rename" /\ pc = "done") => (disk' = disk /\ attempts' = attempts)
    /\ (tool = "rename" /\ pc' = "done" /\ pc # "done" /\ cur <= Len(queue)) => aborts

\* C14: the apply is cut short only by the operator's abort at the prompt, and
\* the abort falls between two moves: the step that takes it changes nothing
\* on the disk, so every move made before it stays made and the source of the
\* action it was typed for is still at its original path, and no move is
\* attempted after it.
C14_AbortAtBoundary == [][C14_Step]_vars

\* aborted on a later item, with an earlier move of the same apply on the disk
C14_Witness ==
    /\ tool = "rename"
    /\ pc = "done"
    /\ answer \in {"q", "Q"}
    /\ cur \in 2..Len(queue)
    /\ queue[cur].original \in DOMAIN disk
    /\ \E i \in 1..(cur - 1) :
        /\ queue[i].proposed \in DOMAIN disk
        /\ queue[i].proposed # queue[i].original
        /\ disk[queue[i].proposed] = queue[i].original

\* the value the confirmation prompt of the running tool waits for
confirming == IF tool = "rename" THEN "1" ELSE "YES"

\* one step of a tool, as C15 allows it
C15_Step ==
    /\ (pc' \in {"apply", "retry", "perm", "unlock", "prompt"} /\ ~Applying)
          => (AtMenu /\ answer' = confirming)
    /\ (AtMenu /\ answer' # confirming)
          => (pc' \in {pc, "issues"} /\ disk' = disk /\ plan' = plan)
    /\ disk' # disk => pc \in {"apply", "retry"}

\* C15: the disk changes only inside an apply, and an apply is entered only
\* from the confirmation prompt with the confirming value ("1" in the name
\* normalizer, "YES" in the show renamer and the sorter); the scan, the
\* planning and any other answer leave every file and directory in place.
C15_ConfirmedOnly == [][C15_Step]_vars

\* a plan with a rename is waiting, and the last answer was the other tools'
\* confirming value, which the name normalizer does not take
C15_Witness ==
    /\ tool = "rename"
    /\ pc = "planned"
    /\ answer = "YES"
    /\ \E i \in DOMAIN plan : plan[i].action \in RENAMES

\* the sorter's planning of the tree is over: the scan of the menu has ended,
\* or the loop of build_sort_plan has run to its return
SortPlanned == (tool = "sort" /\ pc = "crash") \/ (tool = "sort_plan" /\ pc = "planned")

\* the videos the planner's walk finds
SortVideos == Range(iter_video_files(disk, <<SRC>>))

\* the positions of plan that hold an entry of this kind with this source
entries_from(action, original) ==
    {i \in DOMAIN plan : plan[i].action = action /\ plan[i].original = original}

\* C16: once the sorter has planned a tree, every single-movie folder of it is
\* the source of exactly one move_folder entry, and no mkdir, move_video or
\* move_sidecar entry has a source inside that folder.
C16_OneMoveFolder ==
    SortPlanned =>
        \A v \in SortVideos :
            is_single_movie_folder(disk, path_parent(v)) =>
                /\ Cardinality(entries_from("move_folder", path_parent(v))) = 1
                /\ \A i \in DOMAIN plan :
                      plan[i].action # "move_folder"
                          => ~is_prefix(path_parent(v), plan[i].original)

\* the movies that are not in a single-movie folder
LooseVideos ==
    {v \in SortVideos : /\ ~is_single_movie_folder(disk, path_parent(v))
                        /\ ~is_tv_episode_name(path_name(v))}

\* the directories the file moves of plan go into
TargetDirs ==
    {path_parent(plan[i].proposed) :
        i \in {j \in DOMAIN plan : plan[j].action \in {"move_video", "move_sidecar"}}}

\* C17: once the sorter has planned a tree, every loose video is the source of
\* exactly one move_video entry, every sidecar has one move_sidecar entry for
\* each loose video it is matched to, and every directory a file is moved
\* into has exactly one mkdir entry, which stands before the first move into
\* it.
C17_LooseEntries ==
    SortPlanned =>
        /\ \A v \in LooseVideos :
              /\ Cardinality(entries_from("move_video", v)) = 1
              /\ \A sc \in sort_find_sidecars(disk, v) :
                    Cardinality(entries_from("move_sidecar", sc))
                        = Cardinality({w \in LooseVideos : sc \in sort_find_sidecars(disk, w)})
        /\ \A dir \in TargetDirs :
              /\ Cardinality(entries_from("mkdir", dir)) = 1
              /\ \A i \in entries_from("mkdir", dir), j \in DOMAIN plan :
                    (plan[j].action \in {"move_video", "move_sidecar"}
                     /\ path_parent(plan[j].proposed) = dir) => i < j

unparseable(name) ==
    IF tool = "rename"
    THEN RenameFacts[name].year = <<>> /\ ~is_tv_episode_name(name)
    ELSE ~ShowFacts[name].target.ok

\* C19: the plan of the name normalizer and of the show renamer holds no entry
\* whose source is a file in whose name neither a season/episode tag nor a
\* year is found.
C19_UnparseableExcluded ==
    tool \in {"rename", "show"} =>
        \A i \in DOMAIN plan : ~unparseable(path_name(plan[i].original))

\* the planner of the name normalizer or the loop of the sorter appends
\* entries to the plan while it is at the video files[idx]
plans_for_video ==
    /\ \/ tool = "rename" /\ pc = "sc"
       \/ tool = "sort_plan" /\ pc = "vid" /\ idx <= Len(files)
    /\ Len(plan') > Len(plan)

\* the base name the planner has derived for the video
new_base_for(vid) ==
    IF tool = "rename" THEN RenameFacts[path_name(vid)].new_base
    ELSE SortFacts[path_name(vid)].base

\* the sidecar's name with the video's stem removed from its front
tail_of(sc, vid) == DropFirst(path_name(sc), Len(stem(path_name(vid))))

\* C20: every sidecar move the planner appends for a video has the
\* destination name new base + tail, the tail being the sidecar's name with
\* the video's stem taken from its front; so the renamed sidecar ends with its
\* original tail.
C20_SidecarKeepsTail ==
    [][plans_for_video =>
          \A i \in (Len(plan) + 1)..Len(plan') :
              plan'[i].action \in {"rename_sidecar", "move_sidecar"} =>
                  /\ startswith(path_name(plan'[i].original), stem(path_name(files[idx])))
                  /\ path_name(plan'[i].proposed)
                        = new_base_for(files[idx]) \o tail_of(plan'[i].original, files[idx])]_vars

\* the title part of a destination name "<show> - SxxEyy - <title><ext>",
\* lowered; empty when the name holds no title
title_in(name) == str_lower(DropFirst(stem(name), Len(collapse_ws(SHOW_NAME)) + 12))

\* C21: in show-folder mode and in season-folder mode, the title in the
\* destination name of a planned move is not the show name and does not
\* begin with the show name as its first word.
C21_ShowNameDropped ==
    tool \in {"show", "show_season"} =>
        \A i \in DOMAIN plan :
            /\ title_in(path_name(plan[i].proposed)) # str_lower(collapse_ws(SHOW_NAME))
            /\ ~startswith(title_in(path_name(plan[i].proposed)),
                           str_lower(collapse_ws(SHOW_NAME)) \o <<" ">>)

(***************************************************************************)
(* The parsing functions on their own                                      *)
(***************************************************************************)
MaxTokens == 3
MaxStem == 4

SeqsUpTo(S, n) == UNION {[1..k -> S] : k \in 0..n}

\* tokens as tokenize hands them to classify_tokens
ClassifyVocabulary == {<<"S", "0", "1", "E", "0", "2">>,
                       <<"s", "0", "3", "e", "0", "4">>,
                       <<"1", "x", "0", "2">>,
                       <<"P", "i", "l", "o", "t">>,
                       <<"7", "2", "0", "p">>,
                       <<"t", "h", "e">>}

\* the characters of the stems given to tokenize
StemAlphabet == {"a", "B", "1", " ", ".", "-", "(", ":", ";"}

\* the words of the stems given to parse_base_name, joined with "."
BaseVocabulary == {<<"H", "e", "a", "t">>,
                   <<"1", "9", "9", "5">>,
                   <<"2", "0", "1", "0">>,
                   <<"2", "0", "9", "9">>,
                   <<"x", "1", "9", "9", "5">>,
                   <<"1", "0", "8", "0", "p">>,
                   <<"R", "u", "n">>}

FnInputs(f) ==
    IF f = "classify_tokens" THEN SeqsUpTo(ClassifyVocabulary, MaxTokens)
    ELSE IF f = "tokenize" THEN SeqsUpTo(StemAlphabet, MaxStem)
    ELSE {JoinWith(w, <<".">>) : w \in SeqsUpTo(BaseVocabulary, MaxTokens)}

Returned(v) == [returned |-> TRUE, value |-> v]

FnInit ==
    \E f \in {"classify_tokens", "tokenize", "parse_base_name"} :
    \E a \in FnInputs(f) :
        /\ tool = "fn"
        /\ ci = FALSE
        /\ include_noops = FALSE
        /\ disk = <<>>
        /\ pc = "call"
        /\ files = <<>>
        /\ idx = 1
        /\ sc_left = {}
        /\ reserved = {}
        /\ claimed = <<>>
        /\ plan = <<>>
        /\ last_resolve = NoCall
        /\ queue = <<>>
        /\ cur = 1
        /\ uchg = {}
        /\ denied = {}
        /\ locked = FALSE
        /\ auto_unlock = FALSE
        /\ attempts = <<>>
        /\ answer = "none"
        /\ lost = {}
        /\ applied = 0
        /\ autos = 0
        /\ source = <<SRC>>
        /\ dest = <<DST>>
        /\ fn = f
        /\ arg = a
        /\ result = NoResult

\* classify_tokens(arg)
CallClassifyTokens ==
    /\ tool = "fn" /\ pc = "call" /\ fn = "classify_tokens"
    /\ result' = Returned(classify_tokens(arg))
    /\ pc' = "done"
    /\ UNCHANGED <<planVars, applyVars, menuVars, tool, ci, include_noops, disk, fn, arg>>

\* tokenize(arg)
CallTokenize ==
    /\ tool = "fn" /\ pc = "call" /\ fn = "tokenize"
    /\ result' = Returned(tokenize(arg))
    /\ pc' = "done"
    /\ UNCHANGED <<planVars, applyVars, menuVars, tool, ci, include_noops, disk, fn, arg>>

\* parse_base_name(arg)
CallParseBaseName ==
    /\ tool = "fn" /\ pc = "call" /\ fn = "parse_base_name"
    /\ result' = Returned(parse_base_name(arg))
    /\ pc' = "done"
    /\ UNCHANGED <<planVars, applyVars, menuVars, tool, ci, include_noops, disk, fn, arg>>

FnNext ==
    \/ CallClassifyTokens
    \/ CallTokenize
    \/ CallParseBaseName

FnSpec == FnInit /\ [][FnNext]_vars

\* the positions of the tokens of toks that match the SxxEyy pattern
sxxeyy_at(toks) == {i \in 1..Len(toks) : RE_SXXEYY(str_lower(toks[i])).matched}

\* C22: classify_tokens returns the season and the episode of the first token
\* of the sequence that matches the SxxEyy pattern; a later matching token
\* does not change them.
C22_FirstMatchWins ==
    (fn = "classify_tokens" /\ result.returned /\ sxxeyy_at(arg) # {}) =>
        /\ result.value.season = RE_SXXEYY(str_lower(arg[SetMin(sxxeyy_at(arg))])).s
        /\ result.value.episode = RE_SXXEYY(str_lower(arg[SetMin(sxxeyy_at(arg))])).e

\* the positions of the tokens of toks that match the <digits>x<digits> pattern
xxxyy_at(toks) == {i \in 1..Len(toks) : RE_XXxYY(str_lower(toks[i])).matched}

\* C23: a token of the form <1-2 digits>x<1-3 digits> sets season and
\* episode: when no token of the sequence has the SxxEyy form, classify_tokens
\* returns the season and the episode of a token of the alternate form.
C23_AlternateFormSets ==
    (fn = "classify_tokens" /\ result.returned /\ sxxeyy_at(arg) = {} /\ xxxyy_at(arg) # {}) =>
        \E i \in xxxyy_at(arg) :
            /\ result.value.season = RE_XXxYY(str_lower(arg[i])).s
            /\ result.value.episode = RE_XXxYY(str_lower(arg[i])).e

\* a token that is nothing but a 4-digit year in [1900, CURRENT_YEAR]
bare_year(tok) == RE_YEAR(tok) /\ year_in_range(tok) # <<>>

title_word(tok) == str_lower(tok) \notin KNOWN_JUNK_NAMES

\* the positions of the bare years of toks that follow a title word
year_after_title(toks) ==
    {i \in 1..Len(toks) : bare_year(toks[i]) /\ \E j \in 1..(i - 1) : title_word(toks[j])}

\* the title words of the first n tokens
title_words(toks, n) == SelectSeq(SubSeq(toks, 1, n), title_word)

\* the parse the rule gives for the stem st split into toks, the chosen year
\* standing at position y (0 = no year)
parse_by_rule(st, toks, y) ==
    [title |-> IF title_words(toks, IF y = 0 THEN Len(toks) ELSE y - 1) # <<>>
               THEN smart_title(title_words(toks, IF y = 0 THEN Len(toks) ELSE y - 1))
               ELSE st,
     year |-> IF y = 0 THEN <<>> ELSE toks[y]]

\* C24: parse_base_name takes as the year the first token that is a bare
\* 4-digit year in [1900, current year] and follows at least one title word;
\* a year before any title word stays a title word, a token that only
\* contains year digits is not the year, and the title is made of exactly
\* the title words before the chosen year.
C24_BareYearAfterTitle ==
    (fn = "parse_base_name" /\ result.returned) =>
        result.value = parse_by_rule(arg, SplitOn(arg, PARSE_ON),
                                     IF year_after_title(SplitOn(arg, PARSE_ON)) = {} THEN 0
                                     ELSE SetMin(year_after_title(SplitOn(arg, PARSE_ON))))

\* the characters that are neither letters nor digits
PUNCTUATION == {c \in Range(ASCII) : ~isalnum(c)}

\* C25: tokenize returns no empty token and no token that begins or ends
\* with a punctuation or separator character, and the letters and digits of
\* the tokens, in sequence, are those of the stem.
C25_TokensClean ==
    (fn = "tokenize" /\ result.returned) =>
        /\ \A i \in DOMAIN result.value :
               /\ result.value[i] # <<>>
               /\ result.value[i][1] \notin PUNCTUATION
               /\ result.value[i][Len(result.value[i])] \notin PUNCTUATION
        /\ without(JoinWith(result.value, <<>>), PUNCTUATION) = without(arg, PUNCTUATION)

\* C26: in a plan built by the name normalizer's scan each file is the source
\* of at most one action: no two entries of the plan have the same original.
C26_OneActionPerFile ==
    tool = "rename" =>
        \A i, j \in DOMAIN plan : plan[i].original = plan[j].original => i = j

\* C27: a stored plan is applied at most once: in an apply that is not the
\* first one started on the plan, no move is attempted and the disk is as the
\* first apply left it.
C27_AppliedOnce == applied > 1 => attempts = <<>>

\* SOURCE and DEST are existing directories, DEST is not SOURCE and does not
\* lie inside it
paths_ok ==
    /\ is_dir(disk, source)
    /\ is_dir(disk, dest)
    /\ dest # source
    /\ ~is_prefix(source, dest)

\* one step of the sorter's menu, as C28 allows it
C28_Step ==
    /\ (pc = "scan" /\ pc' = "crash") => paths_ok
    /\ (AtMenu /\ pc' = "apply") => paths_ok
    /\ ((pc = "scan" \/ AtMenu) /\ ~paths_ok)
          => (plan' = plan /\ disk' = disk /\ pc' \in {pc, "issues"})

\* C28: in the sorter, build_sort_plan and apply_sort_plan are entered only
\* when SOURCE and DEST are existing directories, DEST is not SOURCE and DEST
\* is not inside SOURCE; with an issue, the choice leaves the plan and the
\* disk as they are.
C28_ValidatedFirst == [][(tool \in {"sort", "sort_apply"}) => C28_Step]_vars

\* an apply was chosen with a plan and DEST inside SOURCE: the issues are shown
C28_Witness ==
    /\ tool = "sort_apply"
    /\ pc = "issues"
    /\ plan # <<>>
    /\ is_dir(disk, dest)
    /\ is_prefix(source, dest)

\* C30: in the sorter a scan that passes validate_paths does not fail: the
\* step out of the scan choice with valid paths never ends the program.
C30_ScanReturnsPlan ==
    [][(tool = "sort" /\ pc = "scan" /\ validate_paths(disk, source, dest) = {})
          => pc' # "crash"]_vars

(***************************************************************************)
(* The name normalizer alone, with its steps scheduled                     *)
(***************************************************************************)
\* Largest number of files on the disk when the scheduled steps are followed.
MaxLiveFiles == 2

RenameInit == Init /\ tool = "rename" /\ Cardinality(DOMAIN disk) <= MaxLiveFiles

RenameNext ==
    \/ Scan
    \/ PlanVideo
    \/ PlanSidecar
    \/ PlanReturn
    \/ NothingToApply
    \/ StartApply
    \/ ApplyRename
    \/ OnPermissionError
    \/ AutoUnlock
    \/ Prompt
    \/ OperatorFix
    \/ ApplyReturn

\* the operator answers the prompt with skip or abort
PromptSkipOrAbort == Prompt /\ choice_branch(answer', locked) \in {"skip", "abort"}

\* apply_plan is sequential code: a statement that can run does run. The
\* prompt blocks until the operator types; that a prompt shown again and again
\* is at some time answered with skip or abort is the operator's part.
RenameLive ==
    /\ RenameInit
    /\ [][RenameNext]_vars
    /\ WF_vars(ApplyRename)
    /\ WF_vars(OnPermissionError)
    /\ WF_vars(AutoUnlock)
    /\ WF_vars(ApplyReturn)
    /\ SF_vars(PromptSkipOrAbort)

\* C29: between two prompts for one item at most one automatic
\* unlock-and-retry happens, and an apply that has started returns to the menu
\* when the operator answers the prompts with skip or abort.
C29_Terminates ==
    /\ [](autos <= 1)
    /\ Applying ~> (pc = "done")

\* the apply has returned, and the last item was renamed by an automatic
\* unlock-and-retry without a prompt of its own
C29_Witness ==
    /\ tool = "rename"
    /\ pc = "done"
    /\ auto_unlock
    /\ autos = 1
    /\ answer = "none"

====
